---- MODULE Spec2Model ----
(***************************************************************************)
(* A model of DataProcessor (src/src/data_processor.py): the stages        *)
(* clean_data, calculate_returns, calculate_fundamentals,                  *)
(* aggregate_by_period, prepare_animation_data, get_sector_summary and the *)
(* orchestrator process_complete_pipeline.                                 *)
(*                                                                         *)
(* A DataFrame is [cols, rows]: the set of column names and the sequence   *)
(* of rows in frame order.  A cell is None (NaN / NaT / None) or Some(v).  *)
(* A row record carries every field the model knows; a field whose column  *)
(* is not in cols is a placeholder and is never read by a stage that has   *)
(* checked for the column.  Floating point values are fixed point integers *)
(* (Scale units per 1.0); a Timestamp is a number of ticks since           *)
(* 1970-01-01 00:00, TicksPerDay ticks to the day.                         *)
(***************************************************************************)
EXTENDS Integers, Sequences, FiniteSets, TLC

VARIABLES
    pc,             \* position inside process_complete_pipeline
    raw_df,         \* the caller's raw table
    animation_period, \* the requested period: "D", "W", "M" or "Q"
    current_year,   \* datetime.now().year as read by calculate_returns
    cleaned_df,     \* result of clean_data
    processed_df,   \* result of calculate_returns, then of calculate_fundamentals
    agg_df,         \* what aggregate_by_period returned inside prepare_animation_data
    animation_df,   \* result of prepare_animation_data
    sector_summary, \* result of get_sector_summary
    result,         \* what the invocation gave its caller
    calls,          \* the stages invoked so far, in order
    raw_given,      \* the raw table as it was when the caller handed it over
    other,          \* a second invocation of process_complete_pipeline
    \* CircuitBreaker (src/src/resilience.py)
    failure_threshold,
    recovery_timeout,
    failure_count,
    last_failure_time,
    state,
    now,            \* time.time()
    attempts,       \* calls of CircuitBreaker.call so far
    invocations,    \* invocations of the wrapped function so far
    outcome,        \* how the last CircuitBreaker.call ended
    \* ConnectionManager (src/server/websocket/manager.py)
    active_connections,
    user_connections,
    topic_subscriptions,
    operation       \* the manager's method that ran last

pipelineVars == <<pc, raw_df, animation_period, current_year, cleaned_df, processed_df,
                  agg_df, animation_df, sector_summary, result, calls, raw_given, other>>
breakerVars == <<failure_threshold, recovery_timeout, failure_count, last_failure_time,
                 state, now, attempts, invocations, outcome>>
managerVars == <<active_connections, user_connections, topic_subscriptions, operation>>

vars == <<pipelineVars, breakerVars, managerVars>>

-----------------------------------------------------------------------------
(* Bounds of the model *)

\* most rows of a raw table handed to the pipeline
MaxRows == 3
\* most rows of a raw table handed to clean_data alone
MaxRowsClean == 2
\* most rows of a processed table handed to prepare_animation_data alone
MaxRowsAnim == 2
\* most rows of a raw table whose sectors are summarised
MaxRowsSummary == 4
\* most rows of the raw table handed to two invocations
MaxRowsTwo == 2
\* CircuitBreaker: largest failure_threshold and recovery_timeout tried, most
\* calls made, and the last second of the clock
MaxThreshold == 2
MaxTimeout == 2
MaxAttempts == 4
MaxTime == 4
\* resolution of the time of day of a Timestamp
TicksPerDay == 2

(* Program constants *)

\* rolling(window=20, ...)
Window == 20
\* np.sqrt(252): trading days per year
TradingDays == 252
\* Market_Cap / 1e9
Billion == 1000000000

\* fixed point: units per 1.0 of a price ratio, so a Daily_Return of 0.10 is
\* 10 and a Cumulative_Return of 10 (percent) is 1000
Scale == 100

\* Market_Cap cells are kept in quarters of a currency unit, so that the
\* median of an even number of values, and the median of values that are
\* themselves such medians, stay exact
Money(v) == 4 * v

-----------------------------------------------------------------------------
(* Cells *)

None == <<>>
Some(v) == <<v>>
IsNull(x) == x = <<>>
Val(x) == x[1]

\* sum and length helpers over sequences of integers
RECURSIVE SumSeq(_)
SumSeq(s) == IF s = <<>> THEN 0 ELSE s[1] + SumSeq(Tail(s))

\* a sequence without its last element
Front(s) == SubSeq(s, 1, Len(s) - 1)

\* largest k with k*k <= x, for 0 <= x, by bisection on lo*lo <= x < hi*hi
RECURSIVE ISqrtBetween(_, _, _)
ISqrtBetween(x, lo, hi) ==
    IF hi - lo <= 1 THEN lo
    ELSE LET mid == (lo + hi) \div 2
         IN  IF mid * mid <= x THEN ISqrtBetween(x, mid, hi)
             ELSE ISqrtBetween(x, lo, mid)
ISqrt(x) == ISqrtBetween(x, 0, IF x < 46340 THEN x + 1 ELSE 46340)

-----------------------------------------------------------------------------
(* The proleptic Gregorian calendar, as pandas Period arithmetic uses it *)

\* days since 1970-01-01 of the civil date y-m-d
DaysFromCivil(y, m, d) ==
    LET yy  == IF m <= 2 THEN y - 1 ELSE y
        era == yy \div 400
        yoe == yy - era * 400
        mp  == IF m > 2 THEN m - 3 ELSE m + 9
        doy == (153 * mp + 2) \div 5 + d - 1
        doe == yoe * 365 + yoe \div 4 - yoe \div 100 + doy
    IN  era * 146097 + doe - 719468

\* the civil date [y, m, d] of a number of days since 1970-01-01
CivilFromDays(z0) ==
    LET z   == z0 + 719468
        era == z \div 146097
        doe == z - era * 146097
        yoe == (doe - doe \div 1460 + doe \div 36524 - doe \div 146096) \div 365
        doy == doe - (365 * yoe + yoe \div 4 - yoe \div 100)
        mp  == (5 * doy + 2) \div 153
        d   == doy - (153 * mp + 2) \div 5 + 1
        m   == IF mp < 10 THEN mp + 3 ELSE mp - 9
        y   == yoe + era * 400 + (IF m <= 2 THEN 1 ELSE 0)
    IN  [y |-> y, m |-> m, d |-> d]

\* pd.Timestamp of a civil date and a time of day in ticks
Ts(y, m, d, tod) == DaysFromCivil(y, m, d) * TicksPerDay + tod

\* the calendar day a Timestamp falls on
DayOf(t) == t \div TicksPerDay

-----------------------------------------------------------------------------
(* Symbols order as Python strings do *)

Symbols == <<"AAPL", "MSFT">>
SymbolRank(s) == CHOOSE i \in 1..Len(Symbols) : Symbols[i] = s

-----------------------------------------------------------------------------
(* clean_data *)

\* A cell of the Date column is a Timestamp or a string that spells one:
\* [repr, ticks], repr "ts" or "str"
Stamp(t) == Some([repr |-> "ts", ticks |-> t])
DateString(t) == Some([repr |-> "str", ticks |-> t])
Ticks(cell) == Val(cell).ticks

\* to_datetime with every instant moved a day on, as a wrong time zone
\* conversion would
to_datetime_shifted(cell) ==
    IF IsNull(cell) THEN None
    ELSE Some([repr |-> "ts", ticks |-> Val(cell).ticks + TicksPerDay])
\* pd.to_datetime of one cell: a date string or a Timestamp becomes a
\* Timestamp; a missing value becomes NaT
to_datetime(cell) ==
    IF IsNull(cell) THEN None ELSE Some([repr |-> "ts", ticks |-> Val(cell).ticks])

\* dropna with Close left out of the subset
dropna_keys_only(rows) ==
    SelectSeq(rows, LAMBDA r : ~IsNull(r.Symbol) /\ ~IsNull(r.Date))
\* df.dropna(subset=['Close', 'Symbol', 'Date'])
dropna_critical(rows) ==
    SelectSeq(rows, LAMBDA r : ~IsNull(r.Close) /\ ~IsNull(r.Symbol) /\ ~IsNull(r.Date))

\* df['Sector'].fillna('Unknown')
fillna_sector(rows) ==
    [i \in DOMAIN rows |->
        IF IsNull(rows[i].Sector) THEN [rows[i] EXCEPT !.Sector = Some("Unknown")]
        ELSE rows[i]]

\* df.drop_duplicates(subset=['Date', 'Symbol'], keep='last')
SameKey(r, q) == r.Date = q.Date /\ r.Symbol = q.Symbol
\* drop_duplicates with keep='first'
RECURSIVE drop_duplicates_first(_)
drop_duplicates_first(rows) ==
    IF rows = <<>> THEN <<>>
    ELSE <<Head(rows)>> \o
         drop_duplicates_first(SelectSeq(Tail(rows), LAMBDA q : ~SameKey(Head(rows), q)))
\* keep='last': the last row of every key stays, at its place
RECURSIVE drop_duplicates(_)
drop_duplicates(rows) ==
    IF rows = <<>> THEN <<>>
    ELSE LET last == rows[Len(rows)]
             rest == SelectSeq(Front(rows), LAMBDA q : ~SameKey(last, q))
         IN  drop_duplicates(rest) \o <<last>>

\* the order of sort_values(['Symbol', 'Date']) on rows whose keys are present
KeyLess(r, q) ==
    \/ SymbolRank(Val(r.Symbol)) < SymbolRank(Val(q.Symbol))
    \/ /\ r.Symbol = q.Symbol
       /\ Ticks(r.Date) < Ticks(q.Date)

\* insert r after every row that is not greater than it (a stable sort)
RECURSIVE InsertSorted(_, _)
InsertSorted(sorted, r) ==
    IF sorted = <<>> THEN <<r>>
    ELSE IF KeyLess(r, sorted[Len(sorted)])
         THEN InsertSorted(Front(sorted), r) \o <<sorted[Len(sorted)]>>
         ELSE sorted \o <<r>>

\* sort_values by Symbol alone, the rows of one symbol left out of date order
RECURSIVE sort_values_unsorted_ties(_)
sort_values_unsorted_ties(rows) ==
    IF rows = <<>> THEN <<>>
    ELSE LET r == rows[Len(rows)]
             s == sort_values_unsorted_ties(Front(rows))
             lo == SelectSeq(s, LAMBDA q : SymbolRank(Val(q.Symbol)) < SymbolRank(Val(r.Symbol)))
             hi == SelectSeq(s, LAMBDA q : SymbolRank(Val(q.Symbol)) >= SymbolRank(Val(r.Symbol)))
         IN  lo \o <<r>> \o hi
\* df.sort_values(['Symbol', 'Date']): a stable lexicographic sort
RECURSIVE sort_values(_)
sort_values(rows) ==
    IF rows = <<>> THEN <<>>
    ELSE InsertSorted(sort_values(Front(rows)), rows[Len(rows)])

\* clean_data raises KeyError when a column named in dropna's subset is absent
clean_data_raises(df) == ~({"Close", "Symbol", "Date"} \subseteq df.cols)

\* clean_data(df), for a df on which it does not raise
clean_data(df) ==
    LET converted == [i \in DOMAIN df.rows |->
                        [df.rows[i] EXCEPT !.Date = to_datetime(@)]]
        kept      == dropna_critical(converted)
        filled    == IF "Sector" \in df.cols THEN fillna_sector(kept) ELSE kept
        unique    == drop_duplicates(filled)
    IN  [cols |-> df.cols, rows |-> sort_values(unique)]

-----------------------------------------------------------------------------
(* calculate_returns *)

\* the first symbol only
SymbolsIn_first_only(rows) ==
    LET all == SelectSeq(Symbols, LAMBDA s : \E i \in DOMAIN rows : rows[i].Symbol = Some(s))
    IN  IF all = <<>> THEN <<>> ELSE <<all[1]>>
\* the symbols of a frame, in sorted order (the order of groupby('Symbol'))
SymbolsIn(rows) ==
    SelectSeq(Symbols, LAMBDA s : \E i \in DOMAIN rows : rows[i].Symbol = Some(s))

\* the rows of one symbol, in frame order
GroupOf(rows, s) == SelectSeq(rows, LAMBDA r : r.Symbol = Some(s))

\* a / b - 1 in fixed point
RatioMinusOne(a, b) == (a * Scale) \div b - Scale

\* x.rolling(window=20, min_periods=1): the positions of the window ending at i
WindowAt(i) == (IF i - Window + 1 > 1 THEN i - Window + 1 ELSE 1)..i

\* pct_change against the first row of the group, not the previous one
Daily_Return_from_first(g, i) ==
    IF i = 1 THEN None ELSE Some(RatioMinusOne(Val(g[i].Close), Val(g[1].Close)))
\* groupby('Symbol')['Close'].pct_change() on one group
Daily_Return(g, i) ==
    IF i = 1 THEN None ELSE Some(RatioMinusOne(Val(g[i].Close), Val(g[i - 1].Close)))

\* the percent change against the previous row, not the first one
Cumulative_Return_from_previous(g, i) ==
    Some(RatioMinusOne(Val(g[i].Close), Val(g[IF i = 1 THEN 1 ELSE i - 1].Close)) * 100)
\* (x / x.iloc[0] - 1) * 100 on one group
Cumulative_Return(g, i) ==
    Some(RatioMinusOne(Val(g[i].Close), Val(g[1].Close)) * 100)

\* year_start = pd.to_datetime(f'{current_year}-01-01')
year_start(year) == Ts(year, 1, 1, 0)

\* calculate_ytd_return with the rows before the year kept on their
\* cumulative return
YTD_Return_cumulative_before_year(g, i, year) ==
    LET year_data == SelectSeq(g, LAMBDA r : Ticks(r.Date) >= year_start(year))
    IN  IF Len(year_data) > 0 /\ Ticks(g[i].Date) >= year_start(year)
        THEN Some(RatioMinusOne(Val(g[i].Close), Val(year_data[1].Close)) * 100)
        ELSE Cumulative_Return(g, i)
\* calculate_ytd_return on one group
YTD_Return(g, i, year) ==
    LET year_data == SelectSeq(g, LAMBDA r : Ticks(r.Date) >= year_start(year))
    IN  IF Len(year_data) > 0
        THEN Some(RatioMinusOne(Val(g[i].Close), Val(year_data[1].Close)) * 100)
        ELSE Cumulative_Return(g, i)

\* x.rolling(window=20, min_periods=1).mean() of Close on one group
MA_20(g, i) ==
    LET w == WindowAt(i)
        total == SumSeq([k \in 1..Cardinality(w) |-> Val(g[i - Cardinality(w) + k].Close)])
    IN  Some((total * Scale) \div Cardinality(w))

\* the Daily_Return observations (the non-NaN ones) of the window ending at i
WindowReturns(g, i) ==
    LET n == Cardinality(WindowAt(i))
        all == [k \in 1..n |-> Daily_Return(g, i - n + k)]
        obs == SelectSeq(all, LAMBDA c : ~IsNull(c))
    IN  [k \in 1..Len(obs) |-> Val(obs[k])]

\* x.rolling(window=20, min_periods=1).std() * np.sqrt(252) * 100 on one
\* group: the sample standard deviation (ddof=1) is NaN for fewer than two
\* observations
Volatility_20(g, i) ==
    LET r  == WindowReturns(g, i)
        n  == Len(r)
        ss == n * SumSeq([k \in 1..n |-> r[k] * r[k]]) - SumSeq(r) * SumSeq(r)
    IN  IF n < 2 THEN None
        ELSE Some(ISqrt((ss * TradingDays) \div (n * (n - 1))) * 100)

\* one group with the five new columns
WithReturns(g, year) ==
    [i \in DOMAIN g |->
        [g[i] EXCEPT !.Daily_Return = Daily_Return(g, i),
                     !.Cumulative_Return = Cumulative_Return(g, i),
                     !.YTD_Return = YTD_Return(g, i, year),
                     !.MA_20 = MA_20(g, i),
                     !.Volatility_20 = Volatility_20(g, i)]]

RECURSIVE ConcatAll(_)
ConcatAll(ss) == IF ss = <<>> THEN <<>> ELSE Head(ss) \o ConcatAll(Tail(ss))

ReturnCols == {"Daily_Return", "Cumulative_Return", "YTD_Return", "MA_20", "Volatility_20"}

\* calculate_returns(df) when datetime.now().year is year
calculate_returns(df, year) ==
    LET sorted == sort_values(df.rows)
        syms   == SymbolsIn(sorted)
    IN  [cols |-> df.cols \cup ReturnCols,
         rows |-> ConcatAll([k \in DOMAIN syms |->
                                WithReturns(GroupOf(sorted, syms[k]), year)])]

-----------------------------------------------------------------------------
(* calculate_fundamentals *)

\* the non-NaN values of a sequence of cells
Valid(cells) ==
    LET obs == SelectSeq(cells, LAMBDA c : ~IsNull(c))
    IN  [k \in 1..Len(obs) |-> Val(obs[k])]

\* a sequence of integers in ascending order
RECURSIVE SortInts(_)
SortInts(s) ==
    IF s = <<>> THEN <<>>
    ELSE LET x == s[Len(s)]
             t == SortInts(Front(s))
         IN  SelectSeq(t, LAMBDA y : y <= x) \o <<x>> \o SelectSeq(t, LAMBDA y : y > x)

\* Series.median(): NaN is skipped; the mean of the two middle values when
\* their number is even; NaN when nothing is left
median(cells) ==
    LET v == SortInts(Valid(cells))
        n == Len(v)
    IN  IF n = 0 THEN None
        ELSE IF n % 2 = 1 THEN Some(v[(n + 1) \div 2])
        ELSE Some((v[n \div 2] + v[n \div 2 + 1]) \div 2)

\* Series.fillna(value): filling with NaN changes nothing
fillna(cells, value) ==
    [i \in DOMAIN cells |-> IF IsNull(cells[i]) THEN value ELSE cells[i]]

\* 'Market_Cap' not in df.columns or df['Market_Cap'].isna().all()
NeedsProxy(df) ==
    \/ "Market_Cap" \notin df.cols
    \/ \A i \in DOMAIN df.rows : IsNull(df.rows[i].Market_Cap)

\* df['Volume'] * df['Close']
Proxy(r) ==
    IF IsNull(r.Volume) \/ IsNull(r.Close) THEN None
    ELSE Some(Money(Val(r.Volume) * Val(r.Close)))

\* the replacement for negative values only
ReplaceNegative(cells) ==
    LET m == median(cells)
    IN  [i \in DOMAIN cells |->
            IF ~IsNull(cells[i]) /\ Val(cells[i]) < 0 THEN m ELSE cells[i]]
\* df.loc[df['Market_Cap'] <= 0, 'Market_Cap'] = df['Market_Cap'].median()
ReplaceNonPositive(cells) ==
    LET m == median(cells)
    IN  [i \in DOMAIN cells |->
            IF ~IsNull(cells[i]) /\ Val(cells[i]) <= 0 THEN m ELSE cells[i]]

\* df['Market_Cap'] / 1e9, kept exact as the pair <<Market_Cap, 1e9>>
InBillions(cell) == IF IsNull(cell) THEN None ELSE Some(<<Val(cell), Billion>>)

\* calculate_fundamentals raises KeyError when it needs the proxy and the
\* frame has no Volume (or no Close) column
calculate_fundamentals_raises(df) ==
    NeedsProxy(df) /\ ~({"Volume", "Close"} \subseteq df.cols)

\* calculate_fundamentals(df), for a df on which it does not raise
calculate_fundamentals(df) ==
    LET caps0 == [i \in DOMAIN df.rows |->
                    IF NeedsProxy(df) THEN Proxy(df.rows[i]) ELSE df.rows[i].Market_Cap]
        caps1 == fillna(caps0, median(caps0))
        caps2 == ReplaceNonPositive(caps1)
    IN  [cols |-> df.cols \cup {"Market_Cap", "Market_Cap_Billions"},
         rows |-> [i \in DOMAIN df.rows |->
                     [df.rows[i] EXCEPT !.Market_Cap = caps2[i],
                                        !.Market_Cap_Billions = InBillions(caps2[i])]]]

-----------------------------------------------------------------------------
(* aggregate_by_period *)

Periods == {"D", "W", "M", "Q"}

\* to_period with the week taken from the instant, not from its day
to_period_week_unfloored(period, t) ==
    LET c == CivilFromDays(DayOf(t))
    IN  CASE period = "D" -> DayOf(t)
          [] period = "W" -> t
          [] period = "M" -> (c.y * 12) + (c.m - 1)
          [] period = "Q" -> c.y * 4 + ((c.m - 1) \div 3)
\* to_period with 'D' read as 'M'
to_period_day_is_month(period, t) ==
    LET c == CivilFromDays(DayOf(t))
    IN  CASE period = "D" -> (c.y * 12) + (c.m - 1)
          [] period = "W" -> (DayOf(t) + 3) \div 7
          [] period = "M" -> (c.y * 12) + (c.m - 1)
          [] period = "Q" -> c.y * 4 + ((c.m - 1) \div 3)
\* Timestamp.to_period(period), as an ordinal: days since 1970-01-01, weeks
\* (Monday to Sunday, the anchor of 'W') since Monday 1969-12-29, months
\* since year 0, quarters since year 0
to_period(period, t) ==
    LET c == CivilFromDays(DayOf(t))
    IN  CASE period = "D" -> DayOf(t)
          [] period = "W" -> (DayOf(t) + 3) \div 7
          [] period = "M" -> (c.y * 12) + (c.m - 1)
          [] period = "Q" -> c.y * 4 + ((c.m - 1) \div 3)

\* to_timestamp with a day's ordinal taken for its instant
to_timestamp_day_in_days(period, k) ==
    CASE period = "D" -> k
      [] period = "W" -> (k * 7 - 3) * TicksPerDay
      [] period = "M" -> Ts(k \div 12, (k % 12) + 1, 1, 0)
      [] period = "Q" -> Ts(k \div 4, (k % 4) * 3 + 1, 1, 0)
\* Period.to_timestamp(): the first instant of the period
to_timestamp(period, k) ==
    CASE period = "D" -> k * TicksPerDay
      [] period = "W" -> (k * 7 - 3) * TicksPerDay
      [] period = "M" -> Ts(k \div 12, (k % 12) + 1, 1, 0)
      [] period = "Q" -> Ts(k \div 4, (k % 4) * 3 + 1, 1, 0)

\* GroupBy 'last' and 'first': the last / first non-null value of the column
agg_last(g, col) ==
    LET obs == SelectSeq(g, LAMBDA r : ~IsNull(r[col]))
    IN  IF obs = <<>> THEN None ELSE obs[Len(obs)][col]
agg_first(g, col) ==
    LET obs == SelectSeq(g, LAMBDA r : ~IsNull(r[col]))
    IN  IF obs = <<>> THEN None ELSE obs[1][col]
\* GroupBy 'sum': NaN is skipped, and the sum of nothing is 0
agg_sum(g, col) == Some(SumSeq(Valid([i \in DOMAIN g |-> g[i][col]])))

AggCols == {"Date", "Close", "Volume", "Security", "Sector", "Market_Cap",
            "Market_Cap_Billions", "Cumulative_Return", "YTD_Return", "Volatility_20"}

\* .agg({...}) raises KeyError when a column it names is absent
aggregate_by_period_raises(df) == ~(AggCols \cup {"Symbol"} \subseteq df.cols)

\* the rows of a frame that groupby(['Symbol', 'Period']) keeps: a row whose
\* key is missing is in no group
Keyed(rows) == SelectSeq(rows, LAMBDA r : ~IsNull(r.Symbol) /\ ~IsNull(r.Date))

\* the period ordinal of every row, a period as often as it has rows
PeriodsOf_per_row(g, period) ==
    SortInts([i \in DOMAIN g |-> to_period(period, Ticks(g[i].Date))])
\* the period ordinals of one symbol's rows, ascending
PeriodsOf(g, period) ==
    SortInts(Valid([i \in DOMAIN g |->
        IF \E j \in 1..(i - 1) : to_period(period, Ticks(g[j].Date)) = to_period(period, Ticks(g[i].Date))
        THEN None ELSE Some(to_period(period, Ticks(g[i].Date)))]))

\* one output row: the group of symbol s and period ordinal k
AggRow(g, period, k) ==
    LET grp == SelectSeq(g, LAMBDA r : to_period(period, Ticks(r.Date)) = k)
    IN  [Symbol |-> grp[1].Symbol,
         Date |-> Stamp(to_timestamp(period, k)),
         Close |-> agg_last(grp, "Close"),
         Volume |-> agg_sum(grp, "Volume"),
         Security |-> agg_first(grp, "Security"),
         Sector |-> agg_first(grp, "Sector"),
         Market_Cap |-> agg_last(grp, "Market_Cap"),
         Market_Cap_Billions |-> agg_last(grp, "Market_Cap_Billions"),
         Cumulative_Return |-> agg_last(grp, "Cumulative_Return"),
         YTD_Return |-> agg_last(grp, "YTD_Return"),
         Volatility_20 |-> agg_last(grp, "Volatility_20"),
         Daily_Return |-> None, MA_20 |-> None, Year_Month |-> None]

\* aggregate_by_period(df, period), for a df on which it does not raise:
\* one row per (Symbol, Period), in sorted key order
aggregate_by_period(df, period) ==
    LET rows == Keyed(df.rows)
        syms == SymbolsIn(rows)
    IN  [cols |-> AggCols \cup {"Symbol"},
         rows |-> ConcatAll([s \in DOMAIN syms |->
                    LET g  == GroupOf(rows, syms[s])
                        ks == PeriodsOf(g, period)
                    IN  [j \in DOMAIN ks |-> AggRow(g, period, ks[j])]])]

-----------------------------------------------------------------------------
(* prepare_animation_data *)

\* required_cols, and the columns of it that the aggregated frame lacks: a
\* warning is printed when there are any
required_cols == {"Date", "Symbol", "Security", "Sector", "Close", "Market_Cap", "YTD_Return"}
missing_cols(anim_df) == required_cols \ anim_df.cols

\* dropna with Close left out of the subset
dropna_animation_without_close(rows) ==
    SelectSeq(rows, LAMBDA r : ~IsNull(r.YTD_Return) /\ ~IsNull(r.Market_Cap))
\* anim_df.dropna(subset=['YTD_Return', 'Market_Cap', 'Close'])
dropna_animation(rows) ==
    SelectSeq(rows, LAMBDA r : ~IsNull(r.YTD_Return) /\ ~IsNull(r.Market_Cap)
                                 /\ ~IsNull(r.Close))

\* anim_df['Date'].dt.strftime('%Y-%m'): the label, as the pair <<year, month>>
strftime_Y_m(cell) ==
    IF IsNull(cell) THEN None
    ELSE LET c == CivilFromDays(DayOf(Ticks(cell))) IN Some(<<c.y, c.m>>)

\* anim_df.sort_values('Date'): rows with equal dates keep their order
RECURSIVE sort_by_date(_)
sort_by_date(rows) ==
    IF rows = <<>> THEN <<>>
    ELSE LET r == rows[Len(rows)]
             t == sort_by_date(Front(rows))
         IN  SelectSeq(t, LAMBDA q : Ticks(q.Date) <= Ticks(r.Date)) \o <<r>> \o
             SelectSeq(t, LAMBDA q : Ticks(q.Date) > Ticks(r.Date))

\* prepare_animation_data(df, period), given what aggregate_by_period returned
prepare_animation_data(anim_df) ==
    LET kept == dropna_animation(anim_df.rows)
        labelled == [i \in DOMAIN kept |->
                        [kept[i] EXCEPT !.Year_Month = strftime_Y_m(kept[i].Date)]]
    IN  [cols |-> anim_df.cols \cup {"Year_Month"}, rows |-> sort_by_date(labelled)]

-----------------------------------------------------------------------------
(* get_sector_summary *)

\* sector names order as Python strings do
Sectors == <<"Energy", "Tech", "Unknown">>

\* pd.DataFrame()
EmptyFrame == [cols |-> {}, rows |-> <<>>]

\* the earliest date in place of the latest
max_date_earliest(rows) ==
    LET v == SortInts(Valid([i \in DOMAIN rows |->
                 IF IsNull(rows[i].Date) THEN None ELSE Some(Ticks(rows[i].Date))]))
    IN  IF v = <<>> THEN None ELSE Stamp(v[1])
\* df['Date'].max(): NaT is skipped; NaT when nothing is left
max_date(rows) ==
    LET v == SortInts(Valid([i \in DOMAIN rows |->
                 IF IsNull(rows[i].Date) THEN None ELSE Some(Ticks(rows[i].Date))]))
    IN  IF v = <<>> THEN None ELSE Stamp(v[Len(v)])

\* GroupBy 'count', 'sum' and 'mean' over one sector's rows
agg_count(g, col) == Len(Valid([i \in DOMAIN g |-> g[i][col]]))
agg_mean(g, col) ==
    LET v == Valid([i \in DOMAIN g |-> g[i][col]])
    IN  IF v = <<>> THEN None ELSE Some(SumSeq(v) \div Len(v))

\* one row of the summary
SummaryRow(g) ==
    [Sector |-> g[1].Sector,
     Stock_Count |-> agg_count(g, "Symbol"),
     Total_Market_Cap |-> agg_sum(g, "Market_Cap"),
     Avg_YTD_Return |-> agg_mean(g, "YTD_Return"),
     Avg_Volatility |-> agg_mean(g, "Volatility_20"),
     Market_Cap_Billions |-> InBillions(agg_sum(g, "Market_Cap"))]

\* sort_values('Total_Market_Cap', ascending=False); ties keep their order
RECURSIVE sort_by_cap_desc(_)
sort_by_cap_desc(rows) ==
    IF rows = <<>> THEN <<>>
    ELSE LET r == rows[Len(rows)]
             t == sort_by_cap_desc(Front(rows))
         IN  SelectSeq(t, LAMBDA q : Val(q.Total_Market_Cap) >= Val(r.Total_Market_Cap))
             \o <<r>> \o
             SelectSeq(t, LAMBDA q : Val(q.Total_Market_Cap) < Val(r.Total_Market_Cap))

\* get_sector_summary without the look for the Sector column
get_sector_summary_unguarded(df) ==
    LET latest_date == max_date(df.rows)
        latest_df == SelectSeq(df.rows, LAMBDA r : ~IsNull(latest_date) /\ r.Date = latest_date)
        secs == SelectSeq(Sectors, LAMBDA x : \E i \in DOMAIN latest_df :
                                                latest_df[i].Sector = Some(x))
    IN  [cols |-> {"Sector", "Stock_Count", "Total_Market_Cap", "Avg_YTD_Return",
                   "Avg_Volatility", "Market_Cap_Billions"},
         rows |-> sort_by_cap_desc([k \in DOMAIN secs |->
                     SummaryRow(SelectSeq(latest_df,
                                          LAMBDA r : r.Sector = Some(secs[k])))])]
\* get_sector_summary(df), for a df that has the columns it aggregates
get_sector_summary(df) ==
    IF "Sector" \notin df.cols THEN EmptyFrame
    ELSE LET latest_date == max_date(df.rows)
             latest_df == SelectSeq(df.rows, LAMBDA r : ~IsNull(latest_date) /\ r.Date = latest_date)
             secs == SelectSeq(Sectors, LAMBDA x : \E i \in DOMAIN latest_df :
                                                     latest_df[i].Sector = Some(x))
         IN  [cols |-> {"Sector", "Stock_Count", "Total_Market_Cap", "Avg_YTD_Return",
                        "Avg_Volatility", "Market_Cap_Billions"},
              rows |-> sort_by_cap_desc([k \in DOMAIN secs |->
                          SummaryRow(SelectSeq(latest_df,
                                               LAMBDA r : r.Sector = Some(secs[k])))])]

-----------------------------------------------------------------------------
(* process_complete_pipeline *)

\* a frame no stage has produced yet
NotRun == [cols |-> {"<not run>"}, rows |-> <<>>]

\* what the caller has received: nothing yet, None, an exception, or the dict
Pending == [returned |-> "pending", value |-> <<>>]
ReturnedNone == [returned |-> "None", value |-> <<>>]
RaisedError == [returned |-> "exception", value |-> <<>>]

\* the empty check left out
empty_never(df) == FALSE
\* the empty check negated
empty_inverted(df) == ~(Len(df.rows) = 0 \/ df.cols = {})
\* cleaned_df.empty
empty(df) == Len(df.rows) = 0 \/ df.cols = {}

\* the returned dict with a key left out
Package_without_summary(processed, animation, summary) ==
    [returned |-> "dict",
     value |-> [processed |-> processed, animation |-> animation]]
\* the dict process_complete_pipeline returns
Package(processed, animation, summary) ==
    [returned |-> "dict",
     value |-> [processed |-> processed, animation |-> animation,
                sector_summary |-> summary]]

\* What a stage leaves in the table it was given: each of clean_data,
\* calculate_returns, calculate_fundamentals and aggregate_by_period starts
\* with df = df.copy() and works on the copy, so the caller's table keeps
\* its value.
\* clean_data working in place: the caller's table loses its rows
clean_data_leaves_emptied(df) == [cols |-> df.cols, rows |-> <<>>]
clean_data_leaves(df) == df
calculate_returns_leaves(df) == df
\* aggregate_by_period working in place: every Date of the caller's table
\* becomes the start of its period
aggregate_by_period_leaves_period_starts(df, period) ==
    [cols |-> df.cols,
     rows |-> [i \in DOMAIN df.rows |->
                 IF IsNull(df.rows[i].Date) THEN df.rows[i]
                 ELSE [df.rows[i] EXCEPT !.Date =
                         Stamp(to_timestamp(period, to_period(period, Ticks(df.rows[i].Date))))]]]
aggregate_by_period_leaves(df, period) == df

\* The second invocation, as a record of its own locals.  same_table says
\* that both invocations were handed one and the same DataFrame object, so
\* that what a stage leaves in it is what the other invocation finds.
NoInvocation ==
    [pc |-> "NoCall", raw_df |-> NotRun, animation_period |-> "M", current_year |-> 0,
     cleaned_df |-> NotRun, processed_df |-> NotRun, agg_df |-> NotRun,
     animation_df |-> NotRun, sector_summary |-> NotRun, result |-> Pending,
     calls |-> <<>>, raw_given |-> NotRun, same_table |-> FALSE]
Invocation(df, period, year, same) ==
    [NoInvocation EXCEPT !.pc = "Start", !.raw_df = df, !.animation_period = period,
                         !.current_year = year, !.raw_given = df, !.same_table = same]

\* the invocation has returned or raised
Ended(st) == st.pc \in {"Done", "Failed", "Raised"}

\* one step of process_complete_pipeline on an invocation's locals
Advance(st) ==
    CASE st.pc = "Start" ->
            IF clean_data_raises(st.raw_df)
            THEN [st EXCEPT !.pc = "Raised", !.result = RaisedError,
                            !.calls = Append(@, "clean_data"),
                            !.raw_df = clean_data_leaves(@)]
            ELSE [st EXCEPT !.pc = "Cleaned", !.cleaned_df = clean_data(st.raw_df),
                            !.calls = Append(@, "clean_data"),
                            !.raw_df = clean_data_leaves(@)]
      [] st.pc = "Cleaned" ->
            IF empty(st.cleaned_df)
            THEN [st EXCEPT !.pc = "Failed", !.result = ReturnedNone]
            ELSE [st EXCEPT !.pc = "Returns",
                            !.processed_df = calculate_returns(st.cleaned_df, st.current_year),
                            !.cleaned_df = calculate_returns_leaves(@),
                            !.calls = Append(@, "calculate_returns")]
      [] st.pc = "Returns" ->
            IF calculate_fundamentals_raises(st.processed_df)
            THEN [st EXCEPT !.pc = "Raised", !.result = RaisedError,
                            !.calls = Append(@, "calculate_fundamentals")]
            ELSE [st EXCEPT !.pc = "Fundamentals",
                            !.processed_df = calculate_fundamentals(@),
                            !.calls = Append(@, "calculate_fundamentals")]
      [] st.pc = "Fundamentals" ->
            IF aggregate_by_period_raises(st.processed_df)
            THEN [st EXCEPT !.pc = "Raised", !.result = RaisedError,
                            !.calls = Append(@, "prepare_animation_data")]
            ELSE [st EXCEPT !.pc = "Aggregated",
                            !.agg_df = aggregate_by_period(st.processed_df, st.animation_period),
                            !.animation_df = prepare_animation_data(
                                aggregate_by_period(st.processed_df, st.animation_period)),
                            !.processed_df = aggregate_by_period_leaves(@, st.animation_period),
                            !.calls = Append(@, "prepare_animation_data")]
      [] st.pc = "Aggregated" ->
            [st EXCEPT !.pc = "Summarized",
                       !.sector_summary = get_sector_summary(st.processed_df),
                       !.calls = Append(@, "get_sector_summary")]
      [] st.pc = "Summarized" ->
            [st EXCEPT !.pc = "Done",
                       !.result = Package(st.processed_df, st.animation_df, st.sector_summary)]
      [] OTHER -> st

\* the other invocation's record once the raw table has the given value, if
\* the table is the one it was handed too
Sharing(o, table) == IF o.same_table THEN [o EXCEPT !.raw_df = table] ELSE o

\* cleaned_df = self.clean_data(raw_df)
CleanStep ==
    /\ pc = "Start"
    /\ calls' = Append(calls, "clean_data")
    /\ IF clean_data_raises(raw_df)
       THEN /\ pc' = "Raised"
            /\ result' = RaisedError
            /\ UNCHANGED cleaned_df
       ELSE /\ pc' = "Cleaned"
            /\ cleaned_df' = clean_data(raw_df)
            /\ UNCHANGED result
    /\ raw_df' = clean_data_leaves(raw_df)
    /\ other' = Sharing(other, clean_data_leaves(raw_df))
    /\ UNCHANGED <<animation_period, current_year, processed_df, agg_df,
                   animation_df, sector_summary, raw_given, breakerVars, managerVars>>

\* if cleaned_df.empty: return None
NoDataStep ==
    /\ pc = "Cleaned"
    /\ empty(cleaned_df)
    /\ pc' = "Failed"
    /\ result' = ReturnedNone
    /\ UNCHANGED <<raw_df, animation_period, current_year, cleaned_df, processed_df,
                   agg_df, animation_df, sector_summary, calls, raw_given, other,
                   breakerVars, managerVars>>

\* processed_df = self.calculate_returns(cleaned_df)
ReturnsStep ==
    /\ pc = "Cleaned"
    /\ ~empty(cleaned_df)
    /\ calls' = Append(calls, "calculate_returns")
    /\ processed_df' = calculate_returns(cleaned_df, current_year)
    /\ cleaned_df' = calculate_returns_leaves(cleaned_df)
    /\ pc' = "Returns"
    /\ UNCHANGED <<raw_df, animation_period, current_year, agg_df,
                   animation_df, sector_summary, result, raw_given, other,
                   breakerVars, managerVars>>

\* processed_df = self.calculate_fundamentals(processed_df)
FundamentalsStep ==
    /\ pc = "Returns"
    /\ calls' = Append(calls, "calculate_fundamentals")
    /\ IF calculate_fundamentals_raises(processed_df)
       THEN /\ pc' = "Raised"
            /\ result' = RaisedError
            /\ UNCHANGED processed_df
       ELSE /\ pc' = "Fundamentals"
            /\ processed_df' = calculate_fundamentals(processed_df)
            /\ UNCHANGED result
    /\ UNCHANGED <<raw_df, animation_period, current_year, cleaned_df, agg_df,
                   animation_df, sector_summary, raw_given, other,
                   breakerVars, managerVars>>

\* animation_df = self.prepare_animation_data(processed_df, period=animation_period)
AnimationStep ==
    /\ pc = "Fundamentals"
    /\ calls' = Append(calls, "prepare_animation_data")
    /\ IF aggregate_by_period_raises(processed_df)
       THEN /\ pc' = "Raised"
            /\ result' = RaisedError
            /\ UNCHANGED <<agg_df, animation_df, processed_df>>
       ELSE /\ pc' = "Aggregated"
            /\ agg_df' = aggregate_by_period(processed_df, animation_period)
            /\ animation_df' =
                 prepare_animation_data(aggregate_by_period(processed_df, animation_period))
            /\ processed_df' = aggregate_by_period_leaves(processed_df, animation_period)
            /\ UNCHANGED result
    /\ UNCHANGED <<raw_df, animation_period, current_year, cleaned_df,
                   sector_summary, raw_given, other, breakerVars, managerVars>>

\* sector_summary = self.get_sector_summary(processed_df)
SummaryStep ==
    /\ pc = "Aggregated"
    /\ calls' = Append(calls, "get_sector_summary")
    /\ sector_summary' = get_sector_summary(processed_df)
    /\ pc' = "Summarized"
    /\ UNCHANGED <<raw_df, animation_period, current_year, cleaned_df, processed_df,
                   agg_df, animation_df, result, raw_given, other,
                   breakerVars, managerVars>>

\* return {'processed': ..., 'animation': ..., 'sector_summary': ...}
ReturnStep ==
    /\ pc = "Summarized"
    /\ result' = Package(processed_df, animation_df, sector_summary)
    /\ pc' = "Done"
    /\ UNCHANGED <<raw_df, animation_period, current_year, cleaned_df, processed_df,
                   agg_df, animation_df, sector_summary, calls, raw_given, other,
                   breakerVars, managerVars>>

\* a step of the second invocation
OtherStep ==
    /\ other.pc # "NoCall"
    /\ ~Ended(other)
    /\ other' = Advance(other)
    /\ raw_df' = IF other.same_table THEN Advance(other).raw_df ELSE raw_df
    /\ UNCHANGED <<pc, animation_period, current_year, cleaned_df, processed_df,
                   agg_df, animation_df, sector_summary, result, calls, raw_given,
                   breakerVars, managerVars>>

Next ==
    \/ CleanStep
    \/ NoDataStep
    \/ ReturnsStep
    \/ FundamentalsStep
    \/ AnimationStep
    \/ SummaryStep
    \/ ReturnStep

\* clean_data called on its own
NextClean == CleanStep

\* prepare_animation_data called on its own
NextAnim == AnimationStep

\* get_sector_summary called on its own
NextSectors == SummaryStep

\* two invocations, their stages interleaved
NextTwo == Next \/ OtherStep

-----------------------------------------------------------------------------
(* CircuitBreaker *)

\* _should_attempt_reset always answering yes
should_attempt_reset_always == TRUE
\* _should_attempt_reset()
should_attempt_reset ==
    IF IsNull(last_failure_time) THEN TRUE
    ELSE now - Val(last_failure_time) >= recovery_timeout

\* _on_success that keeps the failure count
on_success_keeps_count == [failure_count |-> failure_count, state |-> "CLOSED"]
\* _on_success(): the attributes it sets
on_success == [failure_count |-> 0, state |-> "CLOSED"]

\* _on_failure() when self.state is cur and time.time() gives t: the
\* attributes it sets
on_failure(cur, t) ==
    [failure_count |-> failure_count + 1,
     last_failure_time |-> Some(t),
     state |-> IF failure_count + 1 >= failure_threshold THEN "OPEN" ELSE cur]

\* call() gets past the check of the OPEN state, and the state it then has
Admitted == state # "OPEN" \/ should_attempt_reset
StateAdmitted == IF state = "OPEN" THEN "HALF_OPEN" ELSE state

\* call() with the circuit open and the timeout not over
CallRejected ==
    /\ state \in {"CLOSED", "OPEN", "HALF_OPEN"}
    /\ attempts < MaxAttempts
    /\ ~Admitted
    /\ attempts' = attempts + 1
    /\ outcome' = "CircuitBreakerOpenError"
    /\ UNCHANGED <<failure_threshold, recovery_timeout, failure_count, last_failure_time,
                   state, now, invocations, pipelineVars, managerVars>>

\* call() with func returning
CallSuccess ==
    /\ state \in {"CLOSED", "OPEN", "HALF_OPEN"}
    /\ attempts < MaxAttempts
    /\ Admitted
    /\ attempts' = attempts + 1
    /\ invocations' = invocations + 1
    /\ failure_count' = on_success.failure_count
    /\ state' = on_success.state
    /\ outcome' = "returned"
    /\ UNCHANGED <<failure_threshold, recovery_timeout, last_failure_time, now,
                   pipelineVars, managerVars>>

\* call() with func raising expected_exception; func may have taken time
CallFailure ==
    /\ state \in {"CLOSED", "OPEN", "HALF_OPEN"}
    /\ attempts < MaxAttempts
    /\ Admitted
    /\ \E t \in now..(IF now < MaxTime THEN now + 1 ELSE now) :
          /\ now' = t
          /\ failure_count' = on_failure(StateAdmitted, t).failure_count
          /\ last_failure_time' = on_failure(StateAdmitted, t).last_failure_time
          /\ state' = on_failure(StateAdmitted, t).state
    /\ attempts' = attempts + 1
    /\ invocations' = invocations + 1
    /\ outcome' = "expected_exception"
    /\ UNCHANGED <<failure_threshold, recovery_timeout, pipelineVars, managerVars>>

\* call() with func raising an exception that is not an expected_exception
CallOtherException ==
    /\ state \in {"CLOSED", "OPEN", "HALF_OPEN"}
    /\ attempts < MaxAttempts
    /\ Admitted
    /\ attempts' = attempts + 1
    /\ invocations' = invocations + 1
    /\ state' = StateAdmitted
    /\ outcome' = "other_exception"
    /\ UNCHANGED <<failure_threshold, recovery_timeout, failure_count, last_failure_time,
                   now, pipelineVars, managerVars>>

\* reset()
Reset ==
    /\ state \in {"CLOSED", "OPEN", "HALF_OPEN"}
    /\ failure_count' = 0
    /\ last_failure_time' = None
    /\ state' = "CLOSED"
    /\ UNCHANGED <<failure_threshold, recovery_timeout, now, attempts, invocations,
                   outcome, pipelineVars, managerVars>>

\* a second passes
Tick ==
    /\ state \in {"CLOSED", "OPEN", "HALF_OPEN"}
    /\ now < MaxTime
    /\ now' = now + 1
    /\ UNCHANGED <<failure_threshold, recovery_timeout, failure_count, last_failure_time,
                   state, attempts, invocations, outcome, pipelineVars, managerVars>>

NextBreaker ==
    \/ CallRejected
    \/ CallSuccess
    \/ CallFailure
    \/ CallOtherException
    \/ Reset
    \/ Tick

-----------------------------------------------------------------------------
(* ConnectionManager *)

\* connection ids, the user_id arguments (None and 0 are falsy) and topics
ConnectionIds == {"c1", "c2"}
UserIds == {None, Some(0), Some(7)}
Topics == {"stock:AAPL", "stock:MSFT"}

\* if user_id:
Truthy(user_id) == ~IsNull(user_id) /\ Val(user_id) # 0

\* a dict with d[k] = v set, and with del d[k] done
With(d, k, v) == [x \in DOMAIN d \cup {k} |-> IF x = k THEN v ELSE d[x]]
Without(d, k) ==
    IF DOMAIN d \ {k} = {} THEN <<>> ELSE [x \in DOMAIN d \ {k} |-> d[x]]

\* d[k].discard(c) followed by del d[k] if the set is then empty
DiscardFrom(d, k, c) ==
    IF k \notin DOMAIN d THEN d
    ELSE IF d[k] \ {c} = {} THEN Without(d, k)
    ELSE [d EXCEPT ![k] = @ \ {c}]

\* d[k].add(c), the set created when the key is new
AddTo(d, k, c) == With(d, k, (IF k \in DOMAIN d THEN d[k] ELSE {}) \cup {c})

\* the loop of disconnect over list(self.topic_subscriptions.keys())
RECURSIVE DiscardEverywhere(_, _, _)
DiscardEverywhere(d, keys, c) ==
    IF keys = {} THEN d
    ELSE LET k == CHOOSE x \in keys : TRUE
         IN  DiscardEverywhere(DiscardFrom(d, k, c), keys \ {k}, c)

\* the manager's three dicts as one value
Manager == [active_connections |-> active_connections,
            user_connections |-> user_connections,
            topic_subscriptions |-> topic_subscriptions]

\* connect(websocket, connection_id, user_id), websocket.accept() returning
connect(m, connection_id, user_id) ==
    [m EXCEPT !.active_connections = With(@, connection_id, "websocket"),
              !.user_connections =
                  IF Truthy(user_id) THEN AddTo(@, Val(user_id), connection_id) ELSE @]

\* disconnect(connection_id, user_id)
disconnect(m, connection_id, user_id) ==
    [m EXCEPT !.active_connections = Without(@, connection_id),
              !.user_connections =
                  IF Truthy(user_id) THEN DiscardFrom(@, Val(user_id), connection_id) ELSE @,
              !.topic_subscriptions = DiscardEverywhere(@, DOMAIN @, connection_id)]

\* subscribe(connection_id, topic)
subscribe(m, connection_id, topic) ==
    [m EXCEPT !.topic_subscriptions = AddTo(@, topic, connection_id)]

\* unsubscribe(connection_id, topic)
unsubscribe(m, connection_id, topic) ==
    [m EXCEPT !.topic_subscriptions = DiscardFrom(@, topic, connection_id)]

\* for connection_id in disconnected: self.disconnect(connection_id)
RECURSIVE disconnect_each(_, _)
disconnect_each(m, disconnected) ==
    IF disconnected = {} THEN m
    ELSE LET c == CHOOSE x \in disconnected : TRUE
         IN  disconnect_each(disconnect(m, c, None), disconnected \ {c})

\* send_personal_message(message, connection_id); sent says that send_json
\* returned
send_personal_message(m, connection_id, sent) ==
    IF connection_id \in DOMAIN m.active_connections /\ ~sent
    THEN disconnect(m, connection_id, None)
    ELSE m

\* broadcast(message, exclude); failing are the connections whose send_json
\* raises
broadcast(m, exclude, failing) ==
    disconnect_each(m, (DOMAIN m.active_connections \ exclude) \cap failing)

\* broadcast_to_topic(message, topic)
broadcast_to_topic(m, topic, failing) ==
    IF topic \notin DOMAIN m.topic_subscriptions THEN m
    ELSE disconnect_each(m, m.topic_subscriptions[topic]
                              \cap DOMAIN m.active_connections \cap failing)

\* the manager's dicts become those of m, at the return of a method
Becomes(m, method) ==
    /\ operation' = method
    /\ active_connections' = m.active_connections
    /\ user_connections' = m.user_connections
    /\ topic_subscriptions' = m.topic_subscriptions

Connect ==
    \E c \in ConnectionIds, u \in UserIds :
        /\ Becomes(connect(Manager, c, u), "connect")
        /\ UNCHANGED <<pipelineVars, breakerVars>>

Disconnect ==
    \E c \in ConnectionIds, u \in UserIds :
        /\ Becomes(disconnect(Manager, c, u), "disconnect")
        /\ UNCHANGED <<pipelineVars, breakerVars>>

Subscribe ==
    \E c \in ConnectionIds, t \in Topics :
        /\ Becomes(subscribe(Manager, c, t), "subscribe")
        /\ UNCHANGED <<pipelineVars, breakerVars>>

Unsubscribe ==
    \E c \in ConnectionIds, t \in Topics :
        /\ Becomes(unsubscribe(Manager, c, t), "unsubscribe")
        /\ UNCHANGED <<pipelineVars, breakerVars>>

SendPersonalMessage ==
    \E c \in ConnectionIds, sent \in BOOLEAN :
        /\ Becomes(send_personal_message(Manager, c, sent), "send_personal_message")
        /\ UNCHANGED <<pipelineVars, breakerVars>>

Broadcast ==
    \E exclude \in SUBSET ConnectionIds, failing \in SUBSET ConnectionIds :
        /\ Becomes(broadcast(Manager, exclude, failing), "broadcast")
        /\ UNCHANGED <<pipelineVars, breakerVars>>

BroadcastToTopic ==
    \E t \in Topics, failing \in SUBSET ConnectionIds :
        /\ Becomes(broadcast_to_topic(Manager, t, failing), "broadcast_to_topic")
        /\ UNCHANGED <<pipelineVars, breakerVars>>

NextManager ==
    \/ Connect
    \/ Disconnect
    \/ Subscribe
    \/ Unsubscribe
    \/ SendPersonalMessage
    \/ Broadcast
    \/ BroadcastToTopic

-----------------------------------------------------------------------------
(* Raw tables *)

AllCols == {"Date", "Symbol", "Security", "Sector", "Close", "Volume", "Market_Cap"}

Row(symbol, date, close, volume, cap, sector, security) ==
    [Symbol |-> symbol, Date |-> date, Close |-> close, Volume |-> volume,
     Market_Cap |-> cap, Sector |-> sector, Security |-> security,
     Daily_Return |-> None, Cumulative_Return |-> None, YTD_Return |-> None,
     MA_20 |-> None, Volatility_20 |-> None, Market_Cap_Billions |-> None,
     Year_Month |-> None]

\* a frame with the given columns: the fields of the other columns are blank
Frame(cols, rows) ==
    [cols |-> cols,
     rows |-> [i \in DOMAIN rows |->
                 [c \in DOMAIN rows[i] |-> IF c \in cols THEN rows[i][c] ELSE None]]]

\* every sequence of at most n rows drawn from a set of rows
SeqsUpTo(rowset, n) == UNION {[1..k -> rowset] : k \in 0..n}

\* the dates of the raw tables: Monday 2024-12-30 (midnight and later in the
\* day), Tuesday 2024-12-31, Wednesday 2025-01-01, Monday 2025-01-06 and
\* Monday 2025-02-03
Mon30 == Ts(2024, 12, 30, 0)
Mon30Late == Ts(2024, 12, 30, 1)
Tue31 == Ts(2024, 12, 31, 0)
Wed01 == Ts(2025, 1, 1, 0)
Mon06 == Ts(2025, 1, 6, 0)
Feb03 == Ts(2025, 2, 3, 0)

\* no CircuitBreaker and no ConnectionManager are in the picture
NoBreaker ==
    /\ failure_threshold = 0
    /\ recovery_timeout = 0
    /\ failure_count = 0
    /\ last_failure_time = None
    /\ state = "none"
    /\ now = 0
    /\ attempts = 0
    /\ invocations = 0
    /\ outcome = "none"
NoManager ==
    /\ active_connections = <<>>
    /\ user_connections = <<>>
    /\ topic_subscriptions = <<>>
    /\ operation = "none"

StartState(df, period, year) ==
    /\ pc = "Start"
    /\ raw_df = df
    /\ animation_period = period
    /\ current_year = year
    /\ cleaned_df = NotRun
    /\ processed_df = NotRun
    /\ agg_df = NotRun
    /\ animation_df = NotRun
    /\ sector_summary = NotRun
    /\ result = Pending
    /\ calls = <<>>
    /\ raw_given = df
    /\ other = NoInvocation
    /\ NoBreaker
    /\ NoManager

\* raw tables for the orchestrator: columns may be absent, Close may be missing
FlowColumnSets ==
    {AllCols, AllCols \ {"Sector"}, AllCols \ {"Security"}, AllCols \ {"Market_Cap"},
     AllCols \ {"Volume"}, AllCols \ {"Market_Cap", "Volume"}, AllCols \ {"Close"}}
FlowRows ==
    {Row(Some(s), Stamp(dc[1]), dc[2], Some(3), Some(Money(5)), Some("Tech"), Some("Corp")) :
        s \in {"AAPL", "MSFT"},
        dc \in {<<Tue31, Some(100)>>, <<Wed01, Some(110)>>, <<Tue31, None>>}}

Init ==
    \E cols \in FlowColumnSets, rows \in SeqsUpTo(FlowRows, MaxRows) :
        StartState(Frame(cols, rows), "M", 2025)

Spec == Init /\ [][Next]_vars

\* raw tables for clean_data: missing keys, duplicates, any order, dates given
\* as strings or as Timestamps, Sector present or missing
CleanRows ==
    {Row(s, d, c, Some(3), Some(Money(5)), sec, Some("Corp")) :
        s \in {None, Some("AAPL"), Some("MSFT")},
        d \in {None, Stamp(Tue31), DateString(Tue31), Stamp(Mon30)},
        c \in {None, Some(100)},
        sec \in {None, Some("Tech")}}

InitClean ==
    \E rows \in SeqsUpTo(CleanRows, MaxRowsClean) :
        StartState(Frame(AllCols, rows), "M", 2025)

SpecClean == InitClean /\ [][NextClean]_vars

\* the keys <<symbol, ticks>> of a set, as a sequence in (Symbol, Date) order
RECURSIVE KeySeq(_)
KeySeq(keys) ==
    IF keys = {} THEN <<>>
    ELSE LET first == CHOOSE k \in keys : \A o \in keys :
                          \/ SymbolRank(k[1]) < SymbolRank(o[1])
                          \/ SymbolRank(k[1]) = SymbolRank(o[1]) /\ k[2] <= o[2]
         IN  <<first>> \o KeySeq(keys \ {first})

\* the raw tables of at most n rows that are already in (Symbol, Date) order
\* with no key twice, as <<key, payload>> pairs: one per chosen key
SortedTables(keys, payloads, n) ==
    UNION {{[i \in 1..Cardinality(chosen) |-> <<KeySeq(chosen)[i], f[KeySeq(chosen)[i]]>>] :
                f \in [chosen -> payloads]} :
           chosen \in {c \in SUBSET keys : Cardinality(c) <= n}}

\* raw tables for calculate_returns: closes that rise and fall, dates on both
\* sides of a new year, the processing year the later one or the one after
InitReturns ==
    LET keys == ({"AAPL"} \X {Mon30, Tue31, Wed01, Mon06}) \cup ({"MSFT"} \X {Tue31, Wed01})
        row(key, close) ==
            Row(Some(key[1]), Stamp(key[2]), Some(close), Some(3), Some(Money(5)),
                Some("Tech"), Some("Corp"))
    IN  \E t \in SortedTables(keys, {100, 110, 121}, MaxRows),
           year \in {2025, 2026} :
            StartState(Frame(AllCols, [i \in 1..Len(t) |-> row(t[i][1], t[i][2])]), "M", year)

SpecReturns == InitReturns /\ [][Next]_vars

\* raw tables for calculate_fundamentals: the Market_Cap column present or
\* absent, its cells and the Volume cells missing, zero, negative or positive
InitFund ==
    LET keys == {"AAPL", "MSFT"} \X {Tue31, Wed01}
        payloads ==
            {<<None, None>>, <<Some(0), None>>, <<Some(3), None>>, <<Some(3), Some(Money(0))>>,
             <<Some(3), Some(Money(-2))>>, <<Some(3), Some(Money(5))>>,
             <<Some(2), Some(Money(8))>>}
        row(key, vc) ==
            Row(Some(key[1]), Stamp(key[2]), Some(100), vc[1], vc[2], Some("Tech"),
                Some("Corp"))
    IN  \E t \in SortedTables(keys, payloads, MaxRows),
           cols \in {AllCols, AllCols \ {"Market_Cap"}} :
            StartState(Frame(cols, [i \in 1..Len(t) |-> row(t[i][1], t[i][2])]), "M", 2025)

SpecFund == InitFund /\ [][Next]_vars

\* raw tables for aggregate_by_period: two rows on one day, days of one week
\* in two months, quarters and years, weeks of one month, months of one
\* quarter; Volume present or missing; every period
InitAgg ==
    LET keys == ({"AAPL"} \X {Mon30, Mon30Late, Tue31, Wed01, Mon06, Feb03})
                \cup ({"MSFT"} \X {Tue31, Wed01})
        payloads == {<<100, Some(3)>>, <<110, None>>}
        row(key, cv) ==
            Row(Some(key[1]), Stamp(key[2]), Some(cv[1]), cv[2], Some(Money(5)),
                Some("Tech"), Some("Corp"))
    IN  \E t \in SortedTables(keys, payloads, MaxRows),
           period \in Periods :
            StartState(Frame(AllCols, [i \in 1..Len(t) |-> row(t[i][1], t[i][2])]),
                       period, 2025)

SpecAgg == InitAgg /\ [][Next]_vars

\* raw tables for get_sector_summary: two symbols on two dates of the
\* processing year, in one sector or in two, market caps 3 and 5
InitSummary ==
    LET keys == {"AAPL", "MSFT"} \X {Mon06, Feb03}
        payloads ==
            {<<100, 3, "Tech">>, <<100, 5, "Energy">>, <<110, 3, "Tech">>,
             <<110, 3, "Energy">>, <<120, 5, "Tech">>, <<120, 5, "Energy">>}
        row(key, ccs) ==
            Row(Some(key[1]), Stamp(key[2]), Some(ccs[1]), Some(3), Some(Money(ccs[2])),
                Some(ccs[3]), Some("Corp"))
    IN  \E t \in SortedTables(keys, payloads, MaxRowsSummary) :
            StartState(Frame(AllCols, [i \in 1..Len(t) |-> row(t[i][1], t[i][2])]),
                       "M", 2025)

SpecSummary == InitSummary /\ [][Next]_vars

\* raw tables for the fields aggregate_by_period carries: rows of one month
\* and one week whose Sector, Security and Volume differ or are missing
InitFields ==
    LET keys == ({"AAPL"} \X {Mon30, Tue31, Wed01}) \cup ({"MSFT"} \X {Tue31})
        payloads ==
            {<<100, Some(3), Some("Tech"), Some("Corp")>>, <<110, None, None, None>>,
             <<121, Some(2), Some("Energy"), Some("Inc")>>}
        row(key, p) ==
            Row(Some(key[1]), Stamp(key[2]), Some(p[1]), p[2], Some(Money(5)), p[3], p[4])
    IN  \E t \in SortedTables(keys, payloads, MaxRows),
           period \in {"W", "M"} :
            StartState(Frame(AllCols, [i \in 1..Len(t) |-> row(t[i][1], t[i][2])]),
                       period, 2025)

SpecFields == InitFields /\ [][Next]_vars

\* two invocations: the first on any raw table, the second on the very same
\* DataFrame object or on a table of its own, by day or by month
OwnTable ==
    Frame(AllCols, <<Row(Some("MSFT"), Stamp(Wed01), Some(110), Some(3), Some(Money(5)),
                         Some("Tech"), Some("Corp"))>>)
InitTwo ==
    \E cols \in {AllCols, AllCols \ {"Sector"}}, rows \in SeqsUpTo(FlowRows, MaxRowsTwo),
       same \in BOOLEAN, period \in {"D", "M"} :
        /\ pc = "Start"
        /\ raw_df = Frame(cols, rows)
        /\ animation_period = "M"
        /\ current_year = 2025
        /\ cleaned_df = NotRun
        /\ processed_df = NotRun
        /\ agg_df = NotRun
        /\ animation_df = NotRun
        /\ sector_summary = NotRun
        /\ result = Pending
        /\ calls = <<>>
        /\ raw_given = Frame(cols, rows)
        /\ other = Invocation(IF same THEN Frame(cols, rows) ELSE OwnTable, period, 2025, same)
        /\ NoBreaker
        /\ NoManager

SpecTwo == InitTwo /\ [][NextTwo]_vars

\* no invocation of the pipeline is in the picture
NoPipeline ==
    /\ pc = "NoCall"
    /\ raw_df = NotRun
    /\ animation_period = "M"
    /\ current_year = 0
    /\ cleaned_df = NotRun
    /\ processed_df = NotRun
    /\ agg_df = NotRun
    /\ animation_df = NotRun
    /\ sector_summary = NotRun
    /\ result = Pending
    /\ calls = <<>>
    /\ raw_given = NotRun
    /\ other = NoInvocation

\* CircuitBreaker(failure_threshold, recovery_timeout)
InitBreaker ==
    /\ failure_threshold \in 1..MaxThreshold
    /\ recovery_timeout \in 0..MaxTimeout
    /\ failure_count = 0
    /\ last_failure_time = None
    /\ state = "CLOSED"
    /\ now = 0
    /\ attempts = 0
    /\ invocations = 0
    /\ outcome = "none"
    /\ NoPipeline
    /\ NoManager

SpecBreaker == InitBreaker /\ [][NextBreaker]_vars

\* ConnectionManager()
InitManager ==
    /\ NoManager
    /\ NoPipeline
    /\ NoBreaker

SpecManager == InitManager /\ [][NextManager]_vars

\* processed tables for prepare_animation_data called on its own: a required
\* column absent, the critical cells missing or present, rows in any order,
\* by day or by month
ProcessedCols == AllCols \cup ReturnCols \cup {"Market_Cap_Billions"}
AnimColumnSets ==
    {ProcessedCols, ProcessedCols \ {"Sector"}, ProcessedCols \ {"YTD_Return"},
     ProcessedCols \ {"Date"}}
AnimRows ==
    {[Row(Some(s), Stamp(d), c, Some(3), cap, Some("Tech"), Some("Corp"))
        EXCEPT !.YTD_Return = ytd, !.Cumulative_Return = Some(0),
               !.Market_Cap_Billions = InBillions(cap)] :
        s \in {"AAPL", "MSFT"}, d \in {Tue31, Feb03}, c \in {None, Some(100)},
        cap \in {None, Some(Money(5))}, ytd \in {None, Some(1000)}}

InitAnim ==
    \E cols \in AnimColumnSets, rows \in SeqsUpTo(AnimRows, MaxRowsAnim),
       period \in {"D", "M"} :
        /\ pc = "Fundamentals"
        /\ raw_df = NotRun
        /\ animation_period = period
        /\ current_year = 2025
        /\ cleaned_df = NotRun
        /\ processed_df = Frame(cols, rows)
        /\ agg_df = NotRun
        /\ animation_df = NotRun
        /\ sector_summary = NotRun
        /\ result = Pending
        /\ calls = <<>>
        /\ raw_given = NotRun
        /\ other = NoInvocation
        /\ NoBreaker
        /\ NoManager

SpecAnim == InitAnim /\ [][NextAnim]_vars

\* processed tables for get_sector_summary called on its own: with the Sector
\* column or without it
InitSectors ==
    \E cols \in {ProcessedCols, ProcessedCols \ {"Sector"}},
       rows \in SeqsUpTo(AnimRows, MaxRowsAnim) :
        /\ pc = "Aggregated"
        /\ raw_df = NotRun
        /\ animation_period = "M"
        /\ current_year = 2025
        /\ cleaned_df = NotRun
        /\ processed_df = Frame(cols, rows)
        /\ agg_df = NotRun
        /\ animation_df = NotRun
        /\ sector_summary = NotRun
        /\ result = Pending
        /\ calls = <<>>
        /\ raw_given = NotRun
        /\ other = NoInvocation
        /\ NoBreaker
        /\ NoManager

SpecSectors == InitSectors /\ [][NextSectors]_vars

-----------------------------------------------------------------------------
(* Properties *)

SymbolSet == {Symbols[i] : i \in DOMAIN Symbols}

\* the frame has been produced by its stage
Produced(df) == df # NotRun

\* processed_df is the table calculate_returns has returned
AfterReturns == pc \in {"Returns", "Fundamentals", "Aggregated", "Summarized", "Done"}
\* processed_df is the table calculate_fundamentals has returned
AfterFundamentals == pc \in {"Fundamentals", "Aggregated", "Summarized", "Done"}

\* the number of rows of a symbol in a frame
RowCount(df, s) == Len(GroupOf(df.rows, s))

IsPrefix(a, b) == Len(a) <= Len(b) /\ a = SubSeq(b, 1, Len(a))

\* C1: when clean_data yields an empty table the invocation returns None: no
\* exception, and no stage after clean_data is invoked.
C1_EmptyCleanedReportsNoData ==
    (Produced(cleaned_df) /\ Len(cleaned_df.rows) = 0) =>
        /\ calls = <<"clean_data">>
        /\ pc \in {"Cleaned", "Failed"}
        /\ pc = "Cleaned" => (result = Pending /\ ENABLED NoDataStep)
        /\ pc = "Failed" => result = ReturnedNone
        /\ ~Produced(processed_df) /\ ~Produced(agg_df)
        /\ ~Produced(animation_df) /\ ~Produced(sector_summary)

\* every raw row lacks Close, and the invocation has returned None
C1_Witness ==
    /\ pc = "Failed"
    /\ result = ReturnedNone
    /\ Len(raw_df.rows) = 2
    /\ \A i \in DOMAIN raw_df.rows : IsNull(raw_df.rows[i].Close)

\* C2: an invocation that has ended has returned the dict with all three
\* tables, or None, or has raised; a returned dict never lacks a table.
C2_AllThreeOrNothing ==
    /\ pc \in {"Done", "Failed", "Raised"} <=> result # Pending
    /\ pc = "Done" => result.returned = "dict"
    /\ pc = "Failed" => result.returned = "None"
    /\ pc = "Raised" => result.returned = "exception"
    /\ result.returned = "dict" =>
          /\ DOMAIN result.value = {"processed", "animation", "sector_summary"}
          /\ result.value.processed = processed_df /\ Produced(processed_df)
          /\ result.value.animation = animation_df /\ Produced(animation_df)
          /\ result.value.sector_summary = sector_summary /\ Produced(sector_summary)
    /\ result.returned # "dict" => DOMAIN result.value = {}

\* the dict has been returned, and its tables have rows
C2_Witness ==
    /\ pc = "Done"
    /\ result.returned = "dict"
    /\ Len(result.value.processed.rows) = 3
    /\ Len(result.value.animation.rows) > 0
    /\ Len(result.value.sector_summary.rows) > 0

StageOrder ==
    <<"clean_data", "calculate_returns", "calculate_fundamentals",
      "prepare_animation_data", "get_sector_summary">>
StageOrderSwapped ==
    <<"clean_data", "calculate_returns", "calculate_fundamentals",
      "get_sector_summary", "prepare_animation_data">>

\* C3: the stages are invoked in the order clean_data, calculate_returns,
\* calculate_fundamentals, then the two branches, and the position of the
\* invocation is the last stage run; the no-data end (Failed) comes directly
\* after clean_data and only with an empty cleaned table.
C3_StageOrder ==
    /\ IsPrefix(calls, StageOrder) \/ IsPrefix(calls, StageOrderSwapped)
    /\ pc = "Start" => calls = <<>>
    /\ pc = "Cleaned" => Len(calls) = 1
    /\ pc = "Returns" => Len(calls) = 2
    /\ pc = "Fundamentals" => Len(calls) = 3
    /\ pc = "Aggregated" => Len(calls) = 4
    /\ pc \in {"Summarized", "Done"} => Len(calls) = 5
    /\ pc = "Failed" => (calls = <<"clean_data">> /\ Produced(cleaned_df)
                          /\ Len(cleaned_df.rows) = 0)

\* a run that went through every stage
C3_Witness ==
    /\ pc = "Done"
    /\ calls = StageOrder
    /\ Len(cleaned_df.rows) = 2

\* C4: the output of clean_data is in strictly ascending (Symbol, Date)
\* order, so within a symbol the dates strictly increase and no
\* (Symbol, Date) pair occurs twice.
C4_CleanedSortedUnique ==
    Produced(cleaned_df) =>
        /\ \A i \in 1..(Len(cleaned_df.rows) - 1) :
              KeyLess(cleaned_df.rows[i], cleaned_df.rows[i + 1])
        /\ \A i, j \in DOMAIN cleaned_df.rows :
              i # j => ~SameKey(cleaned_df.rows[i], cleaned_df.rows[j])

\* two raw rows of one symbol, the later date first, both kept
C4_Witness ==
    /\ pc = "Cleaned"
    /\ Len(raw_df.rows) = 2 /\ Len(cleaned_df.rows) = 2
    /\ cleaned_df.rows[1].Symbol = cleaned_df.rows[2].Symbol
    /\ Ticks(raw_df.rows[1].Date) > Ticks(raw_df.rows[2].Date)

\* C5: every row calculate_returns returns has a Volatility_20 that is
\* defined and >= 0.
C5_VolatilityDefinedNonNegative ==
    AfterReturns =>
        \A i \in DOMAIN processed_df.rows :
            /\ ~IsNull(processed_df.rows[i].Volatility_20)
            /\ Val(processed_df.rows[i].Volatility_20) >= 0

\* C6: every row calculate_fundamentals returns has Market_Cap > 0.
C6_MarketCapPositive ==
    AfterFundamentals =>
        \A i \in DOMAIN processed_df.rows :
            /\ ~IsNull(processed_df.rows[i].Market_Cap)
            /\ Val(processed_df.rows[i].Market_Cap) > 0

\* the rows aggregate_by_period gives a symbol for a period
AggCount(period, s) == RowCount(aggregate_by_period(processed_df, period), s)

\* C7 as stated: per symbol, rows(day) >= rows(week) >= rows(month) >=
\* rows(quarter).
C7_Original ==
    AfterFundamentals =>
        \A s \in SymbolSet :
            /\ AggCount("D", s) >= AggCount("W", s)
            /\ AggCount("W", s) >= AggCount("M", s)
            /\ AggCount("M", s) >= AggCount("Q", s)

\* C7 as amended: per symbol, rows(day) >= rows(week) and rows(day) >=
\* rows(month) >= rows(quarter); a week may lie in two months, so weeks and
\* months (or quarters) are not ordered.
C7_CoarserPeriodFewerRows ==
    AfterFundamentals =>
        \A s \in SymbolSet :
            /\ AggCount("D", s) >= AggCount("W", s)
            /\ AggCount("D", s) >= AggCount("M", s)
            /\ AggCount("M", s) >= AggCount("Q", s)

\* the pipeline has aggregated by quarter, to fewer rows than there are
\* months, themselves fewer than the days
C7_Witness ==
    /\ pc = "Aggregated"
    /\ animation_period = "Q"
    /\ RowCount(agg_df, "AAPL") = AggCount("Q", "AAPL")
    /\ AggCount("Q", "AAPL") < AggCount("M", "AAPL")
    /\ AggCount("M", "AAPL") < AggCount("D", "AAPL")

\* C8: per symbol, rows after weekly aggregation <= rows after daily
\* aggregation <= rows of the cleaned table.
C8_WeeklyDailyCleaned ==
    AfterFundamentals =>
        \A s \in SymbolSet :
            /\ AggCount("W", s) <= AggCount("D", s)
            /\ AggCount("D", s) <= RowCount(cleaned_df, s)

\* the pipeline has aggregated by week: fewer weeks than days, fewer days
\* than cleaned rows
C8_Witness ==
    /\ pc = "Aggregated"
    /\ animation_period = "W"
    /\ RowCount(agg_df, "AAPL") = AggCount("W", "AAPL")
    /\ AggCount("W", "AAPL") < AggCount("D", "AAPL")
    /\ AggCount("D", "AAPL") < RowCount(cleaned_df, "AAPL")

\* the (Symbol, Date) pairs of a frame
PairsOf(df) == {<<df.rows[i].Symbol, df.rows[i].Date>> : i \in DOMAIN df.rows}

\* the metric columns aggregate_by_period carries
MetricCols == {"Close", "Volume", "Market_Cap", "Market_Cap_Billions",
               "Cumulative_Return", "YTD_Return", "Volatility_20"}

\* every Date of the processed table is a midnight
AllMidnight == \A i \in DOMAIN processed_df.rows :
                   Ticks(processed_df.rows[i].Date) % TicksPerDay = 0

\* C9 as stated: aggregating the processed table by day gives the same
\* (Symbol, Date) pairs and, pair by pair, the same metric values.
C9_Original ==
    AfterFundamentals =>
        LET daily == aggregate_by_period(processed_df, "D")
        IN  /\ PairsOf(daily) = PairsOf(processed_df)
            /\ \A i \in DOMAIN daily.rows, j \in DOMAIN processed_df.rows :
                  SameKey(daily.rows[i], processed_df.rows[j]) =>
                      \A c \in MetricCols : daily.rows[i][c] = processed_df.rows[j][c]

\* C9 as amended: when every Date of the processed table is a midnight,
\* aggregating by day gives the same (Symbol, Date) pairs and, pair by pair,
\* the same metric values, but for a missing Volume, which becomes 0.
C9_DailyRoundTrip ==
    (AfterFundamentals /\ AllMidnight) =>
        LET daily == aggregate_by_period(processed_df, "D")
        IN  /\ PairsOf(daily) = PairsOf(processed_df)
            /\ \A i \in DOMAIN daily.rows, j \in DOMAIN processed_df.rows :
                  SameKey(daily.rows[i], processed_df.rows[j]) =>
                      /\ \A c \in MetricCols \ {"Volume"} :
                            daily.rows[i][c] = processed_df.rows[j][c]
                      /\ daily.rows[i].Volume =
                            IF IsNull(processed_df.rows[j].Volume) THEN Some(0)
                            ELSE processed_df.rows[j].Volume

\* the pipeline has aggregated by day a table of midnights, one Volume missing
C9_Witness ==
    /\ pc = "Aggregated"
    /\ animation_period = "D"
    /\ agg_df = aggregate_by_period(processed_df, "D")
    /\ AllMidnight
    /\ Len(processed_df.rows) = 3
    /\ IsNull(processed_df.rows[1].Volume)
    /\ ~IsNull(processed_df.rows[2].Volume)

\* C10: clean_data applied to its own output returns it unchanged.
C10_CleanIdempotent ==
    Produced(cleaned_df) =>
        /\ ~clean_data_raises(cleaned_df)
        /\ clean_data(cleaned_df) = cleaned_df

\* clean_data has changed the raw table: a date string parsed, a row dropped
C10_Witness ==
    /\ pc = "Cleaned"
    /\ Len(raw_df.rows) = 2 /\ Len(cleaned_df.rows) = 1
    /\ ~IsNull(raw_df.rows[2].Date) /\ Val(raw_df.rows[2].Date).repr = "str"
    /\ IsNull(raw_df.rows[2].Sector)
    /\ cleaned_df.rows[1].Sector = Some("Unknown")

\* the stage has been invoked
Called(stage) == \E i \in DOMAIN calls : calls[i] = stage

\* C11: a raw table that has Date, Symbol and Close but lacks Sector,
\* Market_Cap or Security never makes the pipeline raise.
C11_OptionalColumnsAbsentNoFailure ==
    (/\ {"Date", "Symbol", "Close"} \subseteq raw_df.cols
     /\ ~({"Sector", "Market_Cap", "Security"} \subseteq raw_df.cols)) =>
        pc # "Raised"

\* C12: when prepare_animation_data has been called on a table that lacks a
\* required descriptive column, it has not raised: it has returned a table
\* and the list of missing columns it warns about is not empty.
C12_MissingColumnsWarnNotFail ==
    (Called("prepare_animation_data") /\ ~(required_cols \subseteq processed_df.cols)) =>
        /\ pc # "Raised"
        /\ Produced(animation_df)
        /\ missing_cols(agg_df) # {}

\* a raw row as clean_data leaves a row it keeps: the date parsed, a missing
\* sector named
Normal(r) ==
    [r EXCEPT !.Date = to_datetime(@),
              !.Sector = IF IsNull(@) THEN Some("Unknown") ELSE @]

\* the raw row has a symbol and a date; it has a close as well
HasKey(r) == ~IsNull(r.Symbol) /\ ~IsNull(r.Date)
Complete(r) == HasKey(r) /\ ~IsNull(r.Close)

\* the cleaned rows that carry the (symbol, date) of a raw row
CleanedFor(r) == {c \in DOMAIN cleaned_df.rows : SameKey(cleaned_df.rows[c], Normal(r))}

\* the last raw row, among those at the positions in among, with the
\* (symbol, date) of raw row i
LastLike(i, among) ==
    raw_df.rows[CHOOSE j \in among :
        /\ SameKey(Normal(raw_df.rows[j]), Normal(raw_df.rows[i]))
        /\ \A k \in among :
              SameKey(Normal(raw_df.rows[k]), Normal(raw_df.rows[i])) => k <= j]

\* C13 as stated: a (symbol, date) that several raw rows carry has exactly
\* one cleaned row, with the values of the last of those raw rows.
C13_Original ==
    Produced(cleaned_df) =>
        LET keyed == {i \in DOMAIN raw_df.rows : HasKey(raw_df.rows[i])}
        IN  \A i, j \in keyed :
                (i # j /\ SameKey(Normal(raw_df.rows[i]), Normal(raw_df.rows[j]))) =>
                    /\ Cardinality(CleanedFor(raw_df.rows[i])) = 1
                    /\ \A c \in CleanedFor(raw_df.rows[i]) :
                          cleaned_df.rows[c] = Normal(LastLike(i, keyed))

\* C13 as amended: a (symbol, date) that several raw rows with symbol, date
\* and close all present carry has exactly one cleaned row, with the values
\* of the last of those raw rows.
C13_KeepsLastComplete ==
    Produced(cleaned_df) =>
        LET whole == {i \in DOMAIN raw_df.rows : Complete(raw_df.rows[i])}
        IN  \A i, j \in whole :
                (i # j /\ SameKey(Normal(raw_df.rows[i]), Normal(raw_df.rows[j]))) =>
                    /\ Cardinality(CleanedFor(raw_df.rows[i])) = 1
                    /\ \A c \in CleanedFor(raw_df.rows[i]) :
                          cleaned_df.rows[c] = Normal(LastLike(i, whole))

\* two complete raw rows of one (symbol, date) that differ, the second kept
C13_Witness ==
    /\ pc = "Cleaned"
    /\ Len(raw_df.rows) = 2 /\ Len(cleaned_df.rows) = 1
    /\ Complete(raw_df.rows[1]) /\ Complete(raw_df.rows[2])
    /\ SameKey(Normal(raw_df.rows[1]), Normal(raw_df.rows[2]))
    /\ Normal(raw_df.rows[1]) # Normal(raw_df.rows[2])
    /\ cleaned_df.rows[1] = Normal(raw_df.rows[2])

\* C14: no cleaned row lacks symbol, date or close; every cleaned row is a
\* raw row that has all three; and every (symbol, date) of such a raw row
\* has a cleaned row.
C14_DropsExactlyIncomplete ==
    Produced(cleaned_df) =>
        /\ \A c \in DOMAIN cleaned_df.rows :
              /\ Complete(cleaned_df.rows[c])
              /\ \E i \in DOMAIN raw_df.rows :
                    Complete(raw_df.rows[i]) /\ cleaned_df.rows[c] = Normal(raw_df.rows[i])
        /\ \A i \in DOMAIN raw_df.rows :
              Complete(raw_df.rows[i]) => CleanedFor(raw_df.rows[i]) # {}

\* a raw row without a close dropped, a complete one kept
C14_Witness ==
    /\ pc = "Cleaned"
    /\ Len(raw_df.rows) = 2 /\ Len(cleaned_df.rows) = 1
    /\ HasKey(raw_df.rows[1]) /\ IsNull(raw_df.rows[1].Close)
    /\ Complete(raw_df.rows[2])
    /\ cleaned_df.rows[1] = Normal(raw_df.rows[2])

\* the positions in the processed table of the rows of row i's symbol that
\* come before it
Earlier(i) ==
    {j \in 1..(i - 1) : processed_df.rows[j].Symbol = processed_df.rows[i].Symbol}
Greatest(S) == CHOOSE x \in S : \A y \in S : y <= x
Least(S) == CHOOSE x \in S : \A y \in S : x <= y

\* C15: in the table calculate_returns returns, the rows of a symbol are in
\* date order; Daily_Return is undefined on a symbol's first row and is
\* close / previous close - 1 on every later row, the previous close being
\* that of the symbol's own previous row.
C15_DailyReturnWithinSymbol ==
    AfterReturns =>
        \A i \in DOMAIN processed_df.rows :
            LET row == processed_df.rows[i]
            IN  /\ \A j \in Earlier(i) : Ticks(processed_df.rows[j].Date) < Ticks(row.Date)
                /\ IF Earlier(i) = {} THEN IsNull(row.Daily_Return)
                   ELSE row.Daily_Return =
                          Some(((Val(row.Close) * Scale)
                                  \div Val(processed_df.rows[Greatest(Earlier(i))].Close)) - Scale)

\* two symbols: closes 100 and 110 give the first one an undefined return
\* and 0.10; the other symbol's only row, which follows them, has none
C15_Witness ==
    /\ pc = "Returns"
    /\ Len(processed_df.rows) = 3
    /\ processed_df.rows[1].Symbol = Some("AAPL") /\ processed_df.rows[1].Close = Some(100)
    /\ processed_df.rows[2].Symbol = Some("AAPL") /\ processed_df.rows[2].Close = Some(110)
    /\ processed_df.rows[3].Symbol = Some("MSFT") /\ processed_df.rows[3].Close = Some(121)
    /\ IsNull(processed_df.rows[1].Daily_Return)
    /\ processed_df.rows[2].Daily_Return = Some(Scale \div 10)
    /\ IsNull(processed_df.rows[3].Daily_Return)

\* C16: Cumulative_Return is (close / first close - 1) * 100, the first
\* close being that of the symbol's own first row, and so 0 on that row.
C16_CumulativeFromOwnFirst ==
    AfterReturns =>
        \A i \in DOMAIN processed_df.rows :
            LET row == processed_df.rows[i]
                first == processed_df.rows[Least(Earlier(i) \cup {i})]
            IN  /\ row.Cumulative_Return =
                      Some((((Val(row.Close) * Scale) \div Val(first.Close)) - Scale) * 100)
                /\ Earlier(i) = {} => row.Cumulative_Return = Some(0)

\* closes 100, 110, 121 of one symbol give 0, 10 and 21 percent
C16_Witness ==
    /\ pc = "Returns"
    /\ Len(processed_df.rows) = 3
    /\ \A i \in 1..3 : processed_df.rows[i].Symbol = Some("AAPL")
    /\ processed_df.rows[1].Close = Some(100)
    /\ processed_df.rows[2].Close = Some(110)
    /\ processed_df.rows[3].Close = Some(121)
    /\ processed_df.rows[1].Cumulative_Return = Some(0)
    /\ processed_df.rows[2].Cumulative_Return = Some(10 * Scale)
    /\ processed_df.rows[3].Cumulative_Return = Some(21 * Scale)

\* the Daily_Return observations in the trailing window of row i: those of
\* the last Window rows of its symbol, itself included, that are defined
Observations(i) ==
    LET own == Earlier(i) \cup {i}
    IN  {j \in own : /\ Cardinality({k \in own : k >= j}) <= Window
                     /\ ~IsNull(processed_df.rows[j].Daily_Return)}

\* C17: on a row whose trailing window holds fewer than two Daily_Return
\* observations, Volatility_20 is 0.
C17_VolatilityZeroWhenFewObservations ==
    AfterReturns =>
        \A i \in DOMAIN processed_df.rows :
            Cardinality(Observations(i)) < 2 =>
                processed_df.rows[i].Volatility_20 = Some(0)

\* the (symbol, period) pairs of a frame, for the requested period
PeriodKey(r) == <<r.Symbol, to_period(animation_period, Ticks(r.Date))>>
PeriodKeys(df) == {PeriodKey(df.rows[i]) : i \in DOMAIN df.rows}

\* C18: the table aggregate_by_period returns has the (symbol, period) pairs
\* of its input, each of them in exactly one row.
C18_OneRowPerSymbolPeriod ==
    Produced(agg_df) =>
        /\ PeriodKeys(agg_df) = PeriodKeys(processed_df)
        /\ \A i, j \in DOMAIN agg_df.rows :
              PeriodKey(agg_df.rows[i]) = PeriodKey(agg_df.rows[j]) => i = j

\* three rows of one symbol, two of them in one month, aggregated by month
C18_Witness ==
    /\ pc = "Aggregated"
    /\ animation_period = "M"
    /\ Len(processed_df.rows) = 3
    /\ \A i \in 1..3 : processed_df.rows[i].Symbol = Some("AAPL")
    /\ Cardinality(PeriodKeys(processed_df)) = 2
    /\ Len(agg_df.rows) = 2

\* the three critical cells of a row are present
Critical(r) == ~IsNull(r.YTD_Return) /\ ~IsNull(r.Market_Cap) /\ ~IsNull(r.Close)

\* C19: no row of the table prepare_animation_data returns lacks YTD_Return,
\* Market_Cap or Close; its rows are aggregated rows; and every aggregated
\* row that has all three is among them.
C19_AnimationKeepsExactlyComplete ==
    Produced(animation_df) =>
        /\ \A i \in DOMAIN animation_df.rows :
              /\ Critical(animation_df.rows[i])
              /\ \E a \in DOMAIN agg_df.rows :
                    [animation_df.rows[i] EXCEPT !.Year_Month = None] = agg_df.rows[a]
        /\ \A a \in DOMAIN agg_df.rows :
              Critical(agg_df.rows[a]) =>
                  \E i \in DOMAIN animation_df.rows :
                      [animation_df.rows[i] EXCEPT !.Year_Month = None] = agg_df.rows[a]

\* two aggregated rows, one without a market cap: only the other is returned
C19_Witness ==
    /\ pc = "Aggregated"
    /\ Len(agg_df.rows) = 2
    /\ IsNull(agg_df.rows[1].Market_Cap) /\ ~IsNull(agg_df.rows[1].Close)
    /\ Critical(agg_df.rows[2])
    /\ Len(animation_df.rows) = 1
    /\ [animation_df.rows[1] EXCEPT !.Year_Month = None] = agg_df.rows[2]

\* the sum of a column's cells over the rows of the processed table at the
\* positions in S
RECURSIVE SumOver(_, _)
SumOver(S, col) ==
    IF S = {} THEN 0
    ELSE LET x == CHOOSE y \in S : TRUE
         IN  Val(processed_df.rows[x][col]) + SumOver(S \ {x}, col)

\* the positions of the processed rows on the latest date, and those of them
\* in a sector
OnLatestDate ==
    {i \in DOMAIN processed_df.rows :
        \A j \in DOMAIN processed_df.rows :
            Ticks(processed_df.rows[j].Date) <= Ticks(processed_df.rows[i].Date)}
InSector(sec) == {i \in OnLatestDate : processed_df.rows[i].Sector = sec}

\* C20: the sector summary has one row for every sector that has a row on
\* the latest date of the processed table and no other row; the row gives
\* the number of distinct symbols, the sum of Market_Cap and the mean of
\* YTD_Return over the sector's rows of that date.
C20_SummaryOfLatestDate ==
    Produced(sector_summary) =>
        /\ {sector_summary.rows[k].Sector : k \in DOMAIN sector_summary.rows}
              = {processed_df.rows[i].Sector : i \in OnLatestDate}
        /\ Len(sector_summary.rows)
              = Cardinality({processed_df.rows[i].Sector : i \in OnLatestDate})
        /\ \A k \in DOMAIN sector_summary.rows :
              LET row == sector_summary.rows[k]
                  of  == InSector(row.Sector)
              IN  /\ row.Stock_Count = Cardinality({processed_df.rows[i].Symbol : i \in of})
                  /\ row.Total_Market_Cap = Some(SumOver(of, "Market_Cap"))
                  /\ row.Avg_YTD_Return = Some(SumOver(of, "YTD_Return") \div Cardinality(of))

\* two symbols of one sector with market caps 3 and 5 and YTD returns of 10
\* and 20 percent on the latest date, and rows on an earlier date: the
\* summary is the one row 2, 8, 15
C20_Witness ==
    /\ pc = "Done"
    /\ Len(processed_df.rows) = 4
    /\ Cardinality(OnLatestDate) = 2
    /\ Len(sector_summary.rows) = 1
    /\ sector_summary.rows[1].Sector = Some("Tech")
    /\ sector_summary.rows[1].Stock_Count = 2
    /\ sector_summary.rows[1].Total_Market_Cap = Some(Money(8))
    /\ sector_summary.rows[1].Avg_YTD_Return = Some(15 * Scale)
    /\ {processed_df.rows[i].YTD_Return : i \in OnLatestDate} = {Some(10 * Scale), Some(20 * Scale)}
    /\ {processed_df.rows[i].Market_Cap : i \in OnLatestDate} = {Some(Money(3)), Some(Money(5))}

\* C21: get_sector_summary called on a table without a Sector column has
\* returned the empty frame, and has not raised.
C21_NoSectorColumnEmptySummary ==
    (Called("get_sector_summary") /\ "Sector" \notin processed_df.cols) =>
        /\ pc = "Summarized"
        /\ sector_summary = EmptyFrame
        /\ result = Pending

\* the call has returned for a table of two rows that has no Sector column
C21_Witness ==
    /\ pc = "Summarized"
    /\ "Sector" \notin processed_df.cols
    /\ Len(processed_df.rows) = 2
    /\ sector_summary = EmptyFrame

\* the positions of the processed rows of row i's symbol that are dated on
\* or after January 1 of the processing year
InYear(i) ==
    {j \in DOMAIN processed_df.rows :
        /\ processed_df.rows[j].Symbol = processed_df.rows[i].Symbol
        /\ DayOf(Ticks(processed_df.rows[j].Date)) >= DaysFromCivil(current_year, 1, 1)}

\* the position, among those in S, of the row with the earliest date
Earliest(S) ==
    CHOOSE j \in S : \A k \in S :
        Ticks(processed_df.rows[j].Date) <= Ticks(processed_df.rows[k].Date)

\* C23: a symbol with a row on or after January 1 of the processing year has
\* on every row, those before January 1 too, YTD_Return =
\* (close / base - 1) * 100, base the close of its earliest such row; any
\* other symbol has YTD_Return = Cumulative_Return on every row.
C23_YtdFromYearStartOrCumulative ==
    AfterReturns =>
        \A i \in DOMAIN processed_df.rows :
            LET row == processed_df.rows[i]
            IN  IF InYear(i) # {}
                THEN row.YTD_Return =
                       Some((((Val(row.Close) * Scale)
                                \div Val(processed_df.rows[Earliest(InYear(i))].Close)) - Scale) * 100)
                ELSE row.YTD_Return = row.Cumulative_Return

\* one symbol with a row before January 1 and a later close of 110 as its
\* base: the earlier row, close 100, is below it; another symbol with a row
\* of the old year only, on its cumulative return
C23_Witness ==
    /\ pc = "Returns"
    /\ current_year = 2025
    /\ Len(processed_df.rows) = 3
    /\ processed_df.rows[1].Symbol = Some("AAPL") /\ processed_df.rows[1].Date = Stamp(Tue31)
    /\ processed_df.rows[2].Symbol = Some("AAPL") /\ processed_df.rows[2].Date = Stamp(Wed01)
    /\ processed_df.rows[3].Symbol = Some("MSFT") /\ processed_df.rows[3].Date = Stamp(Tue31)
    /\ processed_df.rows[1].Close = Some(100) /\ processed_df.rows[2].Close = Some(110)
    /\ Val(processed_df.rows[1].YTD_Return) < 0
    /\ processed_df.rows[1].Cumulative_Return = Some(0)
    /\ processed_df.rows[2].YTD_Return = Some(0)
    /\ processed_df.rows[3].YTD_Return = processed_df.rows[3].Cumulative_Return

\* the positions of the processed rows in the (symbol, period) group of an
\* aggregated row, and the one of them with the latest date
GroupFor(a) == {i \in DOMAIN processed_df.rows : PeriodKey(processed_df.rows[i]) = PeriodKey(a)}
Latest(S) ==
    CHOOSE j \in S : \A k \in S :
        Ticks(processed_df.rows[k].Date) <= Ticks(processed_df.rows[j].Date)

\* the sum of Volume over the rows at the positions in S, a missing one as 0
RECURSIVE VolumeOver(_)
VolumeOver(S) ==
    IF S = {} THEN 0
    ELSE LET x == CHOOSE y \in S : TRUE
             v == processed_df.rows[x].Volume
         IN  (IF IsNull(v) THEN 0 ELSE Val(v)) + VolumeOver(S \ {x})

\* C24: every aggregated row has the Close, the return metrics, the market
\* cap fields, the Security and the Sector of its group's row with the latest
\* date, and the sum of the group's Volume.
C24_LatestRowValuesVolumeSum ==
    Produced(agg_df) =>
        \A a \in DOMAIN agg_df.rows :
            LET top == processed_df.rows[Latest(GroupFor(agg_df.rows[a]))]
            IN  /\ \A c \in {"Close", "Cumulative_Return", "YTD_Return", "Volatility_20",
                              "Market_Cap", "Market_Cap_Billions", "Security", "Sector"} :
                      agg_df.rows[a][c] = top[c]
                /\ agg_df.rows[a].Volume = Some(VolumeOver(GroupFor(agg_df.rows[a])))

\* the table calculate_fundamentals was given, and the market caps it starts
\* from: Volume * Close when the table has no Market_Cap column or none of
\* its cells is present, the Market_Cap cells otherwise
FundamentalsInput == calculate_returns(cleaned_df, current_year)
NoMarketCap ==
    \/ "Market_Cap" \notin FundamentalsInput.cols
    \/ \A i \in DOMAIN FundamentalsInput.rows : IsNull(FundamentalsInput.rows[i].Market_Cap)
SourceCaps ==
    [i \in DOMAIN FundamentalsInput.rows |->
        LET r == FundamentalsInput.rows[i]
        IN  IF NoMarketCap
            THEN (IF IsNull(r.Volume) THEN None ELSE Some(Money(Val(r.Volume) * Val(r.Close))))
            ELSE r.Market_Cap]

\* C25: the Market_Cap calculate_fundamentals returns is, row by row, the
\* median of the source market caps (Volume * Close exactly when the column
\* is absent or wholly null) where the source is null or not positive, and
\* the source itself where it is positive.
C25_ProxyThenMedianRepair ==
    (pc = "Fundamentals") =>
        /\ Len(processed_df.rows) = Len(SourceCaps)
        /\ \A i \in DOMAIN processed_df.rows :
              processed_df.rows[i].Market_Cap =
                  IF IsNull(SourceCaps[i]) \/ Val(SourceCaps[i]) <= 0
                  THEN median(SourceCaps)
                  ELSE SourceCaps[i]

\* a Market_Cap column with a missing, a negative and a positive cell: the
\* first two become the median of the last two, the positive one stays
C25_Witness ==
    /\ pc = "Fundamentals"
    /\ ~NoMarketCap
    /\ Len(processed_df.rows) = 3
    /\ {SourceCaps[i] : i \in 1..3} = {None, Some(Money(-2)), Some(Money(5))}
    /\ \A i \in 1..3 :
          processed_df.rows[i].Market_Cap =
              IF SourceCaps[i] = Some(Money(5)) THEN Some(Money(5)) ELSE Some(6)

\* C26: the table calculate_returns and calculate_fundamentals return has
\* as many rows as the cleaned table and the same (symbol, date) pairs.
C26_ProcessingKeepsRows ==
    AfterReturns =>
        /\ Len(processed_df.rows) = Len(cleaned_df.rows)
        /\ PairsOf(processed_df) = PairsOf(cleaned_df)
        /\ \A s \in SymbolSet : RowCount(processed_df, s) = RowCount(cleaned_df, s)

\* both stages have run on a cleaned table of three rows and two symbols
C26_Witness ==
    /\ pc = "Fundamentals"
    /\ Len(cleaned_df.rows) = 3
    /\ RowCount(cleaned_df, "AAPL") = 2 /\ RowCount(processed_df, "AAPL") = 2
    /\ RowCount(cleaned_df, "MSFT") = 1 /\ RowCount(processed_df, "MSFT") = 1

\* what an invocation returns when it runs alone: six steps take it from
\* its entry to its end
RunAlone(df, period, year) ==
    Advance(Advance(Advance(Advance(Advance(Advance(
        Invocation(df, period, year, FALSE))))))).result

\* C22: each of two interleaved invocations, once it has ended, has given
\* its caller what it gives when it runs alone on the raw table it was handed.
C22_InvocationsIndependent ==
    /\ pc \in {"Done", "Failed", "Raised"} =>
          result = RunAlone(raw_given, animation_period, current_year)
    /\ Ended(other) =>
          other.result = RunAlone(other.raw_given, other.animation_period, other.current_year)

\* both invocations were handed the same table, asked for different periods
\* and have returned their dicts, which differ
C22_Witness ==
    /\ pc = "Done" /\ other.pc = "Done"
    /\ other.same_table
    /\ Len(raw_given.rows) = 2
    /\ other.animation_period = "D"
    /\ result.returned = "dict" /\ other.result.returned = "dict"
    /\ result # other.result

\* the fundamentals-annotated table of the caller's raw table
Annotated ==
    calculate_fundamentals(calculate_returns(clean_data(raw_given), current_year))

\* C27: the caller's raw table keeps the value it was handed over with; the
\* cleaned and the processed table keep the values their stages returned;
\* the animation table and the sector summary are both computed from the
\* one fundamentals-annotated table, whichever of the two is computed first.
C27_StagesLeaveInputsAlone ==
    /\ raw_df = raw_given
    /\ Produced(cleaned_df) => cleaned_df = clean_data(raw_given)
    /\ AfterFundamentals => processed_df = Annotated
    /\ Produced(animation_df) =>
          animation_df = prepare_animation_data(aggregate_by_period(Annotated, animation_period))
    /\ Produced(sector_summary) => sector_summary = get_sector_summary(Annotated)

\* the pipeline has returned; aggregation by month has moved dates to the
\* first of the month in its own table, not in the processed one
C27_Witness ==
    /\ pc = "Done"
    /\ animation_period = "M"
    /\ Len(processed_df.rows) = 3
    /\ raw_df = raw_given
    /\ \E i \in DOMAIN animation_df.rows : \A j \in DOMAIN processed_df.rows :
          animation_df.rows[i].Date # processed_df.rows[j].Date
    /\ Len(sector_summary.rows) = 1

\* C28: a CLOSED breaker has fewer failures than its threshold; an OPEN or
\* HALF_OPEN one has at least as many.
C28_StateMatchesFailureCount ==
    /\ state = "CLOSED" => failure_count < failure_threshold
    /\ state \in {"OPEN", "HALF_OPEN"} => failure_count >= failure_threshold

\* a HALF_OPEN breaker whose trial call raised another exception
C28_Witness ==
    /\ state = "HALF_OPEN"
    /\ outcome = "other_exception"
    /\ failure_threshold = 2
    /\ failure_count = 2

\* the breaker is OPEN and the timeout since the last failure is not over
OpenAndWaiting ==
    /\ state = "OPEN"
    /\ ~IsNull(last_failure_time)
    /\ now - Val(last_failure_time) < recovery_timeout

\* C29: a call made while the breaker is OPEN and the timeout is not over
\* raises CircuitBreakerOpenError and leaves state, failure_count and
\* last_failure_time as they were; no step from such a state invokes the
\* wrapped function.
C29_OpenRejectsUntilTimeout ==
    [][OpenAndWaiting =>
          /\ invocations' = invocations
          /\ attempts' # attempts =>
                /\ outcome' = "CircuitBreakerOpenError"
                /\ UNCHANGED <<state, failure_count, last_failure_time>>]_vars

\* a call has been rejected, a second after the failure that opened the
\* breaker
C29_Witness ==
    /\ OpenAndWaiting
    /\ outcome = "CircuitBreakerOpenError"
    /\ now = Val(last_failure_time) + 1
    /\ invocations < attempts

\* C30: every connection id in a set of user_connections or of
\* topic_subscriptions is a key of active_connections, and neither dict
\* holds an empty set.
C30_RegisteredIdsAreActive ==
    /\ \A u \in DOMAIN user_connections :
          /\ user_connections[u] # {}
          /\ user_connections[u] \subseteq DOMAIN active_connections
    /\ \A t \in DOMAIN topic_subscriptions :
          /\ topic_subscriptions[t] # {}
          /\ topic_subscriptions[t] \subseteq DOMAIN active_connections

====
